---- MODULE Spec2Model ----
(***************************************************************************)
(* Ghost Pool: a pooled-deposit ledger kept confidential by an MPC         *)
(* network.  Three programs are modelled:                                  *)
(*   - the ledger transition circuits of encrypted-ixs/src/lib.rs, as      *)
(*     operators on a decrypted PoolState (specifications LedgerSpec and   *)
(*     WithdrawalSpec, and WideSpec for the arithmetic at full width),     *)
(*   - the on-chain program of programs/ghost_pool/src/lib.rs: its         *)
(*     instructions, the computations they queue and the callbacks that    *)
(*     reconcile the pool account (specification Spec), and                *)
(*   - the lending reserve of programs/mock_kamino/src/lib.rs              *)
(*     (specification ReserveSpec).                                        *)
(***************************************************************************)
EXTENDS Integers, FiniteSets, Sequences, TLC

----------------------------------------------------------------------------
(* Program constants *)

\* encrypted-ixs: pub const MAX_DEPOSITS: usize = 2
MAX_DEPOSITS == 2

\* the fixed-point scale of yield_per_share, 1_000_000_000
SCALE == 1000000000

----------------------------------------------------------------------------
(* Bounds of the model *)

\* deposit, withdrawal and yield amounts range over 0..MaxAmount
MaxAmount == 1

\* password hashes range over 0..MaxHash
MaxHash == 1

\* record_yield is applied at most MaxYields times in a run of LedgerSpec
MaxYields == 2

\* at most MaxComputations computations are queued in a run of Spec
MaxComputations == 4

\* at most MaxInFlight computations are outstanding at once
MaxInFlight == 2

\* at most MaxLedgerOps circuits are applied in a run of LedgerSpec
MaxLedgerOps == 4

\* the clock shows the timestamps 1..MaxClock
MaxClock == 1

\* tokens the depositors hold when the pool is created
InitialUserTokens == 2

Amounts == 0..MaxAmount
Hashes == 0..MaxHash
SlotIdx == 0..(MAX_DEPOSITS - 1)

----------------------------------------------------------------------------
(* 64-bit unsigned arithmetic.                                             *)
(* A u64 is held as a small integer r standing for r mod 2^64: r >= 0      *)
(* stands for r itself and r < 0 for 2^64 + r, the value a wrapping        *)
(* subtraction leaves behind.  Sums, differences and products of such      *)
(* representatives are exact modulo 2^64.                                  *)

\* a >= b on the unsigned values
Geq64(a, b) == IF (a < 0) = (b < 0) THEN a >= b ELSE a < 0

\* a - b leaves the range of u64 (a < b on the unsigned values)
SubUnderflows(a, b) == ~Geq64(a, b)

\* floor(a * b / c) for 0 <= a, 0 <= b, 0 < c, without forming a * b:
\* <<quotient, remainder>> by long division over the binary digits of b
RECURSIVE MulDivRem(_, _, _)
MulDivRem(a, b, c) ==
    IF b = 0 THEN <<0, 0>>
    ELSE LET p == MulDivRem(a, b \div 2, c)
             t == p[2] * 2 + a * (b % 2)
         IN  <<p[1] * 2 + (t \div c), t % c>>

\* (a * b) / c as the circuits compute it on u64 values.  A divisor that is a
\* wrapped value (2^64 + c) exceeds every product the model forms: quotient 0.
MulDiv(a, b, c) == IF c < 0 THEN 0 ELSE MulDivRem(a, b, c)[1]

----------------------------------------------------------------------------
(* The confidential ledger: encrypted-ixs/src/lib.rs *)

empty_entry ==
    [password_hash |-> 0, principal |-> 0,
     last_yield_checkpoint |-> 0, is_active |-> FALSE]

init_pool_state ==
    [deposits |-> [i \in SlotIdx |-> empty_entry],
     total_deposited |-> 0,
     total_invested |-> 0,
     pending_deposits |-> 0,
     yield_per_share |-> 0,
     deposit_count |-> 0]

\* faulty variant: the scan keeps the last inactive slot it meets
RECURSIVE find_slot_Last(_, _, _, _)
find_slot_Last(state, i, found_slot, slot_idx) ==
    IF i = MAX_DEPOSITS THEN <<found_slot, slot_idx>>
    ELSE IF ~state.deposits[i].is_active
         THEN find_slot_Last(state, i + 1, TRUE, i)
         ELSE find_slot_Last(state, i + 1, found_slot, slot_idx)

\* the scan for the first inactive slot: <<found_slot, slot_idx>> after the
\* loop has visited slots i..MAX_DEPOSITS-1
RECURSIVE find_slot(_, _, _, _)
find_slot(state, i, found_slot, slot_idx) ==
    IF i = MAX_DEPOSITS THEN <<found_slot, slot_idx>>
    ELSE IF ~state.deposits[i].is_active /\ ~found_slot
         THEN find_slot(state, i + 1, TRUE, i)
         ELSE find_slot(state, i + 1, found_slot, slot_idx)

\* faulty variant: with no inactive slot the entry is written over slot 0
process_deposit_Overwrites(password_hash, amount, state) ==
    LET f == find_slot(state, 0, FALSE, 0)
    IN  [state EXCEPT
           !.deposits[f[2]] =
               [password_hash |-> password_hash,
                principal |-> amount,
                last_yield_checkpoint |-> state.yield_per_share,
                is_active |-> TRUE],
           !.total_deposited = @ + amount,
           !.pending_deposits = @ + amount,
           !.deposit_count = IF f[1] THEN @ + 1 ELSE @]

\* faulty variant: the new entry's checkpoint is 0, not the current index
process_deposit_NoCheckpoint(password_hash, amount, state) ==
    LET f == find_slot(state, 0, FALSE, 0)
    IN  IF f[1]
        THEN [state EXCEPT
                !.deposits[f[2]] =
                    [password_hash |-> password_hash,
                     principal |-> amount,
                     last_yield_checkpoint |-> 0,
                     is_active |-> TRUE],
                !.total_deposited = @ + amount,
                !.pending_deposits = @ + amount,
                !.deposit_count = @ + 1]
        ELSE state

\* faulty variant: the deposit counter is not advanced
process_deposit_NoCount(password_hash, amount, state) ==
    LET f == find_slot(state, 0, FALSE, 0)
    IN  IF f[1]
        THEN [state EXCEPT
                !.deposits[f[2]] =
                    [password_hash |-> password_hash,
                     principal |-> amount,
                     last_yield_checkpoint |-> state.yield_per_share,
                     is_active |-> TRUE],
                !.total_deposited = @ + amount,
                !.pending_deposits = @ + amount]
        ELSE state

\* faulty variant: the amount is booked as invested, not as pending
process_deposit_Invests(password_hash, amount, state) ==
    LET f == find_slot(state, 0, FALSE, 0)
    IN  IF f[1]
        THEN [state EXCEPT
                !.deposits[f[2]] =
                    [password_hash |-> password_hash,
                     principal |-> amount,
                     last_yield_checkpoint |-> state.yield_per_share,
                     is_active |-> TRUE],
                !.total_deposited = @ + amount,
                !.total_invested = @ + amount,
                !.deposit_count = @ + 1]
        ELSE state

\* faulty variant: the amount is not added to total_deposited
process_deposit_Unfunded(password_hash, amount, state) ==
    LET f == find_slot(state, 0, FALSE, 0)
    IN  IF f[1]
        THEN [state EXCEPT
                !.deposits[f[2]] =
                    [password_hash |-> password_hash,
                     principal |-> amount,
                     last_yield_checkpoint |-> state.yield_per_share,
                     is_active |-> TRUE],
                !.pending_deposits = @ + amount,
                !.deposit_count = @ + 1]
        ELSE state

process_deposit(password_hash, amount, state) ==
    LET f == find_slot(state, 0, FALSE, 0)
    IN  IF f[1]
        THEN [state EXCEPT
                !.deposits[f[2]] =
                    [password_hash |-> password_hash,
                     principal |-> amount,
                     last_yield_checkpoint |-> state.yield_per_share,
                     is_active |-> TRUE],
                !.total_deposited = @ + amount,
                !.pending_deposits = @ + amount,
                !.deposit_count = @ + 1]
        ELSE state

\* faulty variant: the boundary pending_deposits = threshold does not invest
check_investment_needed_Strict(state, threshold) ==
    LET should_invest == ~Geq64(threshold, state.pending_deposits)
    IN  [should_invest |-> should_invest,
         amount_to_invest |-> IF should_invest THEN state.pending_deposits ELSE 0]

check_investment_needed(state, threshold) ==
    LET should_invest == Geq64(state.pending_deposits, threshold)
    IN  [should_invest |-> should_invest,
         amount_to_invest |-> IF should_invest THEN state.pending_deposits ELSE 0]

\* pending_deposits -= amount underflows
record_investment_faults(state, amount) ==
    SubUnderflows(state.pending_deposits, amount)

\* faulty variant: the invested amount stays pending
record_investment_KeepsPending(state, amount) ==
    [state EXCEPT !.total_invested = @ + amount]

record_investment(state, amount) ==
    [state EXCEPT !.total_invested = @ + amount,
                  !.pending_deposits = @ - amount]

\* faulty variant: the yield moves the index but is not added to the total
record_yield_IndexOnly(state, yield_amount) ==
    IF state.total_deposited # 0
    THEN LET yield_per_token == MulDiv(yield_amount, SCALE, state.total_deposited)
         IN  [state EXCEPT !.yield_per_share = @ + yield_per_token]
    ELSE state

\* faulty variant: the index is set to the increment instead of raised by it
record_yield_Resets(state, yield_amount) ==
    IF state.total_deposited # 0
    THEN LET yield_per_token == MulDiv(yield_amount, SCALE, state.total_deposited)
         IN  [state EXCEPT !.yield_per_share = yield_per_token,
                           !.total_deposited = @ + yield_amount]
    ELSE state

\* faulty variant: every active slot is credited and checkpointed at yield time
record_yield_Eager(state, yield_amount) ==
    IF state.total_deposited # 0
    THEN LET yield_per_token == MulDiv(yield_amount, SCALE, state.total_deposited)
             index == state.yield_per_share + yield_per_token
         IN  [state EXCEPT
                !.deposits =
                    [i \in SlotIdx |->
                        IF state.deposits[i].is_active
                        THEN [state.deposits[i] EXCEPT
                                !.principal =
                                    @ + MulDiv(@, index - state.deposits[i].last_yield_checkpoint,
                                               SCALE),
                                !.last_yield_checkpoint = index]
                        ELSE state.deposits[i]],
                !.yield_per_share = index,
                !.total_deposited = @ + yield_amount]
    ELSE state

record_yield(state, yield_amount) ==
    IF state.total_deposited # 0
    THEN LET yield_per_token == MulDiv(yield_amount, SCALE, state.total_deposited)
         IN  [state EXCEPT !.yield_per_share = @ + yield_per_token,
                           !.total_deposited = @ + yield_amount]
    ELSE state

\* principal + (principal * (yield_per_share - checkpoint)) / 1e9 of slot i
current_balance(state, i) ==
    LET principal == state.deposits[i].principal
        checkpoint == state.deposits[i].last_yield_checkpoint
        yield_delta == state.yield_per_share - checkpoint
        accrued_yield == MulDiv(principal, yield_delta, SCALE)
    IN  principal + accrued_yield

\* faulty variant: a later slot with the supplied hash replaces an earlier one
RECURSIVE find_match_Last(_, _, _, _, _, _)
find_match_Last(state, password_hash, i, found, found_idx, actual_balance) ==
    IF i = MAX_DEPOSITS THEN <<found, found_idx, actual_balance>>
    ELSE LET matches == state.deposits[i].is_active
                        /\ state.deposits[i].password_hash = password_hash
         IN  IF matches
             THEN find_match_Last(state, password_hash, i + 1, TRUE, i,
                                  current_balance(state, i))
             ELSE find_match_Last(state, password_hash, i + 1, found, found_idx,
                                  actual_balance)

\* faulty variant: a slot matches by its hash alone, active or not
RECURSIVE find_match_AnySlot(_, _, _, _, _, _)
find_match_AnySlot(state, password_hash, i, found, found_idx, actual_balance) ==
    IF i = MAX_DEPOSITS THEN <<found, found_idx, actual_balance>>
    ELSE LET matches == state.deposits[i].password_hash = password_hash
         IN  IF matches /\ ~found
             THEN find_match_AnySlot(state, password_hash, i + 1, TRUE, i,
                                     current_balance(state, i))
             ELSE find_match_AnySlot(state, password_hash, i + 1, found,
                                     found_idx, actual_balance)

\* the scan for the first active slot with the supplied hash:
\* <<found, found_idx, actual_balance>> after the loop has visited i..
RECURSIVE find_match(_, _, _, _, _, _)
find_match(state, password_hash, i, found, found_idx, actual_balance) ==
    IF i = MAX_DEPOSITS THEN <<found, found_idx, actual_balance>>
    ELSE LET matches == state.deposits[i].is_active
                        /\ state.deposits[i].password_hash = password_hash
         IN  IF matches /\ ~found
             THEN find_match(state, password_hash, i + 1, TRUE, i,
                             current_balance(state, i))
             ELSE find_match(state, password_hash, i + 1, found, found_idx,
                             actual_balance)

\* faulty variant: the requested amount is echoed whatever the decision
authorize_withdrawal_Echoes(password_hash, amount, state) ==
    LET m == find_match(state, password_hash, 0, FALSE, 0, 0)
        sufficient == m[1] /\ Geq64(m[3], amount)
    IN  [authorized |-> sufficient,
         amount |-> amount,
         found_idx |-> m[2]]

authorize_withdrawal(password_hash, amount, state) ==
    LET m == find_match(state, password_hash, 0, FALSE, 0, 0)
        sufficient == m[1] /\ Geq64(m[3], amount)
    IN  [authorized |-> sufficient,
         amount |-> IF sufficient THEN amount ELSE 0,
         found_idx |-> m[2]]

\* current_balance - amount, deposit_count -= 1 or total_deposited -= amount
\* underflows
process_withdrawal_faults(state, idx, amount) ==
    \/ idx \in SlotIdx /\ SubUnderflows(current_balance(state, idx), amount)
    \/ idx \in SlotIdx /\ current_balance(state, idx) = amount
                        /\ state.deposit_count = 0
    \/ SubUnderflows(state.total_deposited, amount)

\* faulty variant: a slot emptied by the withdrawal is uncounted but stays active
process_withdrawal_StaysActive(state, idx, amount) ==
    LET touched ==
          IF idx \in SlotIdx
          THEN LET new_balance == current_balance(state, idx) - amount
               IN  [state EXCEPT
                      !.deposits[idx].principal = new_balance,
                      !.deposits[idx].last_yield_checkpoint = state.yield_per_share,
                      !.deposit_count =
                          IF new_balance = 0 THEN @ - 1 ELSE @]
          ELSE state
    IN  [touched EXCEPT !.total_deposited = @ - amount]

\* faulty variant: the slot's checkpoint is left where it was
process_withdrawal_KeepsCheckpoint(state, idx, amount) ==
    LET touched ==
          IF idx \in SlotIdx
          THEN LET new_balance == current_balance(state, idx) - amount
               IN  [state EXCEPT
                      !.deposits[idx].principal = new_balance,
                      !.deposits[idx].is_active =
                          IF new_balance = 0 THEN FALSE ELSE @,
                      !.deposit_count =
                          IF new_balance = 0 THEN @ - 1 ELSE @]
          ELSE state
    IN  [touched EXCEPT !.total_deposited = @ - amount]

\* faulty variant: a slot emptied by the withdrawal is deactivated but still counted
process_withdrawal_NoCount(state, idx, amount) ==
    LET touched ==
          IF idx \in SlotIdx
          THEN LET new_balance == current_balance(state, idx) - amount
               IN  [state EXCEPT
                      !.deposits[idx].principal = new_balance,
                      !.deposits[idx].last_yield_checkpoint = state.yield_per_share,
                      !.deposits[idx].is_active =
                          IF new_balance = 0 THEN FALSE ELSE @]
          ELSE state
    IN  [touched EXCEPT !.total_deposited = @ - amount]

process_withdrawal(state, idx, amount) ==
    LET touched ==
          IF idx \in SlotIdx
          THEN LET new_balance == current_balance(state, idx) - amount
               IN  [state EXCEPT
                      !.deposits[idx].principal = new_balance,
                      !.deposits[idx].last_yield_checkpoint = state.yield_per_share,
                      !.deposits[idx].is_active =
                          IF new_balance = 0 THEN FALSE ELSE @,
                      !.deposit_count =
                          IF new_balance = 0 THEN @ - 1 ELSE @]
          ELSE state
    IN  [touched EXCEPT !.total_deposited = @ - amount]

----------------------------------------------------------------------------
(* LedgerSpec: the circuits applied one after another to a PoolState.      *)

VARIABLES
    ledger,           \* the PoolState the circuits transform
    overflow_checks,  \* the build traps u64 overflow (TRUE) or wraps (FALSE)
    l_ops,            \* circuits applied so far
    l_yields,         \* record_yield applications so far
    l_credited,       \* history: yield recorded while total_deposited > 0
    l_last            \* the circuit applied last, its inputs, the state it was
                      \* given and its outcome

ledger_vars == <<ledger, overflow_checks, l_ops, l_yields, l_credited, l_last>>

NoCircuit ==
    [op |-> "none", hash |-> 0, amount |-> 0, idx |-> 0, aborted |-> FALSE,
     pre |-> init_pool_state]

LedgerReady ==
    /\ ledger = init_pool_state
    /\ overflow_checks \in BOOLEAN
    /\ l_ops = 0
    /\ l_yields = 0
    /\ l_credited = 0
    /\ l_last = NoCircuit

LedgerIdle ==
    /\ ledger = init_pool_state
    /\ overflow_checks = FALSE
    /\ l_ops = 0
    /\ l_yields = 0
    /\ l_credited = 0
    /\ l_last = NoCircuit

\* one circuit run: the new state is kept unless an overflow trapped
Apply(op, hash, amount, idx, faults, new_state) ==
    /\ l_ops < MaxLedgerOps
    /\ l_ops' = l_ops + 1
    /\ LET aborted == faults /\ overflow_checks
       IN  /\ ledger' = IF aborted THEN ledger ELSE new_state
           /\ l_last' = [op |-> op, hash |-> hash, amount |-> amount,
                         idx |-> idx, aborted |-> aborted, pre |-> ledger]
    /\ UNCHANGED overflow_checks

LDeposit ==
    \E h \in Hashes, a \in Amounts :
        /\ Apply("process_deposit", h, a, 0, FALSE, process_deposit(h, a, ledger))
        /\ UNCHANGED <<l_yields, l_credited>>

LRecordInvestment ==
    \E a \in Amounts :
        /\ Apply("record_investment", 0, a, 0,
                 record_investment_faults(ledger, a), record_investment(ledger, a))
        /\ UNCHANGED <<l_yields, l_credited>>

\* the index after the update stays within the integers the model holds:
\* one event pays at most 100% and the index is at most 1e9 before it
IndexFits(state, yield_amount) ==
    \/ state.total_deposited = 0
    \/ /\ state.total_deposited > 0
       /\ yield_amount <= state.total_deposited
       /\ state.yield_per_share <= SCALE

LRecordYield ==
    \E y \in Amounts :
        /\ l_yields < MaxYields
        /\ IndexFits(ledger, y)
        /\ l_yields' = l_yields + 1
        /\ l_credited' = IF ledger.total_deposited # 0
                         THEN l_credited + y ELSE l_credited
        /\ Apply("record_yield", 0, y, 0, FALSE, record_yield(ledger, y))

\* authorize_withdrawal reveals a WithdrawalAuth and returns no PoolState: the
\* state stays as it was
LAuthorize ==
    \E h \in Hashes, a \in Amounts :
        /\ Apply("authorize_withdrawal", h, a,
                 authorize_withdrawal(h, a, ledger).found_idx, FALSE, ledger)
        /\ UNCHANGED <<l_yields, l_credited>>

\* process_withdrawal with the idx and amount authorize_withdrawal revealed
LWithdraw ==
    \E h \in Hashes, a \in Amounts :
        LET auth == authorize_withdrawal(h, a, ledger)
        IN  /\ auth.authorized
            /\ Apply("process_withdrawal", h, auth.amount, auth.found_idx,
                     process_withdrawal_faults(ledger, auth.found_idx, auth.amount),
                     process_withdrawal(ledger, auth.found_idx, auth.amount))
            /\ UNCHANGED <<l_yields, l_credited>>

\* the values of idx a caller can pass: the slots and an index past them
Indexes == 0..MAX_DEPOSITS

\* process_withdrawal with an idx and an amount of the caller's choosing,
\* whatever authorize_withdrawal would have revealed.  The run ends with it:
\* a principal it wrapped is not fed to a later circuit.
LProcessWithdrawal ==
    \E idx \in Indexes, a \in Amounts :
        /\ l_ops < MaxLedgerOps
        /\ l_ops' = MaxLedgerOps
        /\ LET aborted == process_withdrawal_faults(ledger, idx, a)
                              /\ overflow_checks
           IN  /\ ledger' = IF aborted THEN ledger
                            ELSE process_withdrawal(ledger, idx, a)
               /\ l_last' = [op |-> "process_withdrawal", hash |-> 0,
                             amount |-> a, idx |-> idx, aborted |-> aborted,
                             pre |-> ledger]
        /\ UNCHANGED <<overflow_checks, l_yields, l_credited>>

----------------------------------------------------------------------------
(* The circuits at full width                                              *)
(*                                                                         *)
(* The ledger above holds a u64 as a small integer.  Here a u64 is held in *)
(* full: a natural below 2^128 is a sequence of WIDE_LIMBS limbs of 8      *)
(* bits, the least significant first, and a u64 is one whose upper limbs   *)
(* are 0.  The sum, product and difference of two u64 are formed exactly   *)
(* and then cut to 64 bits, as the machine does; an operation whose exact  *)
(* result does not fit traps in a build with overflow checks and keeps the *)
(* cut value in one without.                                               *)

\* the bytes of a u64
U64_LIMBS == 8

WIDE_LIMBS == 2 * U64_LIMBS

\* the values of a byte
RADIX == 256

\* n limbs of 0
RECURSIVE w_zeros(_)
w_zeros(n) == IF n = 0 THEN <<>> ELSE <<0>> \o w_zeros(n - 1)

\* the wide form of an integer 0 <= n < 2^31
Wide(n) ==
    << n % RADIX, (n \div RADIX) % RADIX, (n \div (RADIX * RADIX)) % RADIX,
       n \div (RADIX * RADIX * RADIX) >> \o w_zeros(WIDE_LIMBS - 4)

\* limbs k.. of a + b + c, where c is the carry into limb k
RECURSIVE w_add_from(_, _, _, _)
w_add_from(a, b, k, c) ==
    IF k > WIDE_LIMBS THEN <<>>
    ELSE LET t == a[k] + b[k] + c
         IN  <<t % RADIX>> \o w_add_from(a, b, k + 1, t \div RADIX)

\* a + b modulo 2^128
w_add(a, b) == w_add_from(a, b, 1, 0)

\* limbs k.. of a - b, where c is the borrow out of limb k - 1
RECURSIVE w_sub_from(_, _, _, _)
w_sub_from(a, b, k, c) ==
    IF k > WIDE_LIMBS THEN <<>>
    ELSE LET t == a[k] - b[k] - c
         IN  <<t % RADIX>> \o w_sub_from(a, b, k + 1, IF t < 0 THEN 1 ELSE 0)

\* a - b modulo 2^128
w_sub(a, b) == w_sub_from(a, b, 1, 0)

\* a >= b, compared from limb k down
RECURSIVE w_geq_from(_, _, _)
w_geq_from(a, b, k) ==
    IF k = 0 THEN TRUE
    ELSE IF a[k] # b[k] THEN a[k] > b[k]
    ELSE w_geq_from(a, b, k - 1)

w_geq(a, b) == w_geq_from(a, b, WIDE_LIMBS)

\* limbs k.. of a * d for one limb d, where c is the carry into limb k
RECURSIVE w_mul_limb_from(_, _, _, _)
w_mul_limb_from(a, d, k, c) ==
    IF k > WIDE_LIMBS THEN <<>>
    ELSE LET t == a[k] * d + c
         IN  <<t % RADIX>> \o w_mul_limb_from(a, d, k + 1, t \div RADIX)

\* a * RADIX^n modulo 2^128
w_shift(a, n) == w_zeros(n) \o SubSeq(a, 1, WIDE_LIMBS - n)

\* a * b modulo 2^128 for b below 2^64, from limb k of b onwards
RECURSIVE w_mul_from(_, _, _)
w_mul_from(a, b, k) ==
    IF k > U64_LIMBS THEN w_zeros(WIDE_LIMBS)
    ELSE w_add(w_shift(w_mul_limb_from(a, b[k], 1, 0), k - 1),
               w_mul_from(a, b, k + 1))

w_mul(a, b) == w_mul_from(a, b, 1)

\* bit i of a, bit 0 the least significant
w_bit(a, i) == (a[(i \div 8) + 1] \div (2 ^ (i % 8))) % 2

\* long division of n by d # 0 in binary, one limb of n at a time:
\* <<quotient, remainder>> once the bits i..lo of n have been brought down to
\* the quotient q and remainder r
RECURSIVE w_div_from(_, _, _, _, _, _)
w_div_from(n, d, i, lo, q, r) ==
    IF i < lo THEN <<q, r>>
    ELSE LET r2 == w_add_from(r, r, 1, w_bit(n, i))
             goes == w_geq(r2, d)
             q2 == w_add_from(q, q, 1, IF goes THEN 1 ELSE 0)
             r3 == IF goes THEN w_sub(r2, d) ELSE r2
         IN  IF Len(q2) = Len(r3)
             THEN w_div_from(n, d, i - 1, lo, q2, r3)
             ELSE <<q2, r3>>

\* the pair qr = <<quotient, remainder>> once the limbs k..1 of n have been
\* brought down as well
RECURSIVE w_div_limbs(_, _, _, _)
w_div_limbs(n, d, k, qr) ==
    IF k = 0 \/ Len(qr[1]) # Len(qr[2]) THEN qr
    ELSE w_div_limbs(n, d, k - 1,
                     w_div_from(n, d, 8 * k - 1, 8 * (k - 1), qr[1], qr[2]))

\* floor(n / d) for d # 0: the division starts at the highest limb of n that
\* is not 0
RECURSIVE w_top(_, _)
w_top(a, k) == IF k = 0 \/ a[k] # 0 THEN k ELSE w_top(a, k - 1)

w_div(n, d) ==
    w_div_limbs(n, d, w_top(n, WIDE_LIMBS),
                <<w_zeros(WIDE_LIMBS), w_zeros(WIDE_LIMBS)>>)[1]

\* the low 64 bits of a
trunc64(a) == SubSeq(a, 1, U64_LIMBS) \o w_zeros(WIDE_LIMBS - U64_LIMBS)

\* a is a u64
fits64(a) == a = trunc64(a)

\* 2^64 - 1
U64_MAX == w_sub(w_shift(Wide(1), U64_LIMBS), Wide(1))

(* The PoolState and the circuits with every u64 in full *)

VARIABLES
    wide,     \* the PoolState, every u64 of it in full
    w_ops,    \* circuits applied to it so far
    w_last    \* history: the circuit applied last, its amount, whether it
              \* trapped, and the state it was applied to

wide_vars == <<wide, w_ops, w_last>>

\* circuits applied to the full-width state in one run
MaxWideOps == 3

wide_empty_entry ==
    [password_hash |-> 0, principal |-> Wide(0),
     last_yield_checkpoint |-> Wide(0), is_active |-> FALSE]

wide_init_pool_state ==
    [deposits |-> [i \in SlotIdx |-> wide_empty_entry],
     total_deposited |-> Wide(0),
     total_invested |-> Wide(0),
     pending_deposits |-> Wide(0),
     yield_per_share |-> Wide(0),
     deposit_count |-> 0]

\* the largest yield_amount whose product with 1e9 is a u64: 18446744073
MAX_SAFE_YIELD == w_div(U64_MAX, Wide(SCALE))

\* the amounts deposited and the yields recorded
WideAmounts == {Wide(1), Wide(100), Wide(300)}

WideYields == {Wide(40), MAX_SAFE_YIELD, w_add(MAX_SAFE_YIELD, Wide(1))}

\* the password hash of the deposits
WideHashes == {0}

\* total_deposited += amount or pending_deposits += amount overflows
wide_process_deposit_faults(amount, state) ==
    /\ find_slot(state, 0, FALSE, 0)[1]
    /\ \/ ~fits64(w_add(state.total_deposited, amount))
       \/ ~fits64(w_add(state.pending_deposits, amount))

wide_process_deposit(password_hash, amount, state) ==
    LET slot == find_slot(state, 0, FALSE, 0)
    IN  IF slot[1]
        THEN [state EXCEPT
                !.deposits[slot[2]] =
                    [password_hash |-> password_hash,
                     principal |-> amount,
                     last_yield_checkpoint |-> state.yield_per_share,
                     is_active |-> TRUE],
                !.total_deposited = trunc64(w_add(@, amount)),
                !.pending_deposits = trunc64(w_add(@, amount)),
                !.deposit_count = @ + 1]
        ELSE state

\* (yield_amount * 1_000_000_000) / state.total_deposited in u64: the
\* product is cut to 64 bits before it is divided
wide_yield_per_token(state, yield_amount) ==
    w_div(trunc64(w_mul(yield_amount, Wide(SCALE))), state.total_deposited)

\* the product, the new index or the new total overflows
wide_record_yield_faults(state, yield_amount) ==
    /\ state.total_deposited # Wide(0)
    /\ \/ ~fits64(w_mul(yield_amount, Wide(SCALE)))
       \/ ~fits64(w_add(state.yield_per_share,
                        wide_yield_per_token(state, yield_amount)))
       \/ ~fits64(w_add(state.total_deposited, yield_amount))

wide_record_yield(state, yield_amount) ==
    IF state.total_deposited # Wide(0)
    THEN LET yield_per_token == wide_yield_per_token(state, yield_amount)
         IN  [state EXCEPT
                !.yield_per_share = trunc64(w_add(@, yield_per_token)),
                !.total_deposited = trunc64(w_add(@, yield_amount))]
    ELSE state

\* yield_per_share - checkpoint of slot i in u64
wide_yield_delta(state, i) ==
    trunc64(w_sub(state.yield_per_share,
                  state.deposits[i].last_yield_checkpoint))

\* faulty variant: the share of a slot is rounded up
wide_accrued_yield_RoundsUp(state, i) ==
    w_div(w_add(trunc64(w_mul(state.deposits[i].principal,
                              wide_yield_delta(state, i))),
                Wide(SCALE - 1)),
          Wide(SCALE))

\* (principal * yield_delta) / 1_000_000_000 of slot i in u64, as
\* authorize_withdrawal and process_withdrawal compute it
wide_accrued_yield(state, i) ==
    w_div(trunc64(w_mul(state.deposits[i].principal,
                        wide_yield_delta(state, i))),
          Wide(SCALE))

\* the difference or the product overflows
wide_accrued_yield_faults(state, i) ==
    \/ ~w_geq(state.yield_per_share, state.deposits[i].last_yield_checkpoint)
    \/ ~fits64(w_mul(state.deposits[i].principal, wide_yield_delta(state, i)))

NoWideCircuit ==
    [op |-> "none", amount |-> Wide(0), aborted |-> FALSE,
     pre |-> wide_init_pool_state]

WideIdle ==
    /\ wide = wide_init_pool_state
    /\ w_ops = 0
    /\ w_last = NoWideCircuit

\* one circuit run: the new state is kept unless an overflow trapped
WideApply(op, amount, faults, new_state) ==
    /\ w_ops < MaxWideOps
    /\ w_ops' = w_ops + 1
    /\ LET aborted == faults /\ overflow_checks
       IN  /\ wide' = IF aborted THEN wide ELSE new_state
           /\ w_last' = [op |-> op, amount |-> amount, aborted |-> aborted,
                         pre |-> wide]

WDeposit ==
    \E h \in WideHashes, a \in WideAmounts :
        WideApply("process_deposit", a, wide_process_deposit_faults(a, wide),
                  wide_process_deposit(h, a, wide))

WRecordYield ==
    \E y \in WideYields :
        WideApply("record_yield", y, wide_record_yield_faults(wide, y),
                  wide_record_yield(wide, y))

----------------------------------------------------------------------------
(* The lending reserve: programs/mock_kamino/src/lib.rs                    *)
(*                                                                         *)
(* The amounts and the exchange rate of the reserve are u64 held in full,  *)
(* as in the section above; slots are small integers.  A Rust Option is a  *)
(* sequence: <<>> is None and <<v>> is Some(v).  unwrap() of None panics:  *)
(* the instruction fails and every account is as it was before it.         *)

\* exchange_rate is liquidity per cToken scaled by 1_000_000
RATE_SCALE == 1000000

\* the slots of a year in the mock yield
SLOTS_PER_YEAR == 63000000

\* reserve.yield_rate_bps, set by init_reserve
YIELD_RATE_BPS == 500

\* instructions run on the reserve in one run, init_reserve apart
MaxReserveOps == 3

\* slots that pass at once: the least number that moves the exchange rate
SlotStep == 126000

\* liquidity tokens the user holds when the reserve is created
ReserveUserTokens == 4

VARIABLES
    reserve_exists,            \* init_reserve has created the Reserve account
    reserve,                   \* the fields of the Reserve account
    clock_slot,                \* Clock::get()?.slot
    user_liquidity,            \* balance of the user's liquidity token account
    user_collateral,           \* balance of the user's cToken account
    reserve_liquidity_supply,  \* balance of the reserve's liquidity supply
    k_ops,                     \* instructions run on the reserve so far
    k_last                     \* history: the instruction run last, its
                               \* amount, its result, what it minted or paid
                               \* and the exchange rate it used

reserve_vars == <<reserve_exists, reserve, clock_slot, user_liquidity,
                  user_collateral, reserve_liquidity_supply, k_ops, k_last>>

\* the exchange rates a reserve is created with: below, at and above 1:1
ReserveRates == {Wide(3), Wide(RATE_SCALE), Wide(1500000)}

\* the amounts deposited; the product of the last with 1_000_000 is no u64
LiquidityAmounts ==
    {Wide(1), Wide(2), w_add(w_div(U64_MAX, Wide(RATE_SCALE)), Wide(1))}

\* the additional_liquidity of accrue_yield
YieldAmounts == {Wide(1)}

\* the cTokens a user asks to redeem: all they hold, what the last
\* instruction minted or paid, or one
RedeemAmounts == {user_collateral, k_last.out, Wide(1)}

checked_mul(a, b) ==
    LET p == w_mul(a, b) IN IF fits64(p) THEN <<p>> ELSE <<>>

checked_div(a, b) == IF b = Wide(0) THEN <<>> ELSE <<w_div(a, b)>>

checked_add(a, b) ==
    LET s == w_add(a, b) IN IF fits64(s) THEN <<s>> ELSE <<>>

checked_sub(a, b) == IF w_geq(a, b) THEN <<w_sub(a, b)>> ELSE <<>>

\* a.checked_mul(b).unwrap().checked_div(c): None where the chain panics
mul_div(a, b, c) ==
    LET p == checked_mul(a, b)
    IN  IF p = <<>> THEN <<>> ELSE checked_div(p[1], c)

\* u64::saturating_sub on slots
saturating_sub(a, b) == IF a >= b THEN a - b ELSE 0

\* u64::max
w_max(a, b) == IF w_geq(a, b) THEN a ELSE b

\* the exchange rate after the mock yield accrual that opens
\* deposit_reserve_liquidity and redeem_reserve_collateral
updated_exchange_rate(res, current_slot) ==
    LET slots_passed == saturating_sub(current_slot, res.last_update_slot)
    IN  IF slots_passed > 0 /\ res.total_collateral # Wide(0)
        THEN LET yield_factor ==
                     RATE_SCALE
                     + ((slots_passed * res.yield_rate_bps) \div SLOTS_PER_YEAR)
             IN  mul_div(res.exchange_rate, Wide(yield_factor), Wide(RATE_SCALE))
        ELSE <<res.exchange_rate>>

\* faulty variant: the cTokens minted are rounded up
liquidity_to_collateral_RoundsUp(liquidity_amount, exchange_rate) ==
    LET p == checked_mul(liquidity_amount, Wide(RATE_SCALE))
    IN  IF p = <<>> \/ exchange_rate = Wide(0) THEN <<>>
        ELSE <<w_div(w_sub(w_add(p[1], exchange_rate), Wide(1)), exchange_rate)>>

\* collateral = liquidity * 1e6 / exchange_rate
liquidity_to_collateral(liquidity_amount, exchange_rate) ==
    mul_div(liquidity_amount, Wide(RATE_SCALE), exchange_rate)

\* liquidity = collateral * exchange_rate / 1e6
collateral_to_liquidity(collateral_amount, exchange_rate) ==
    mul_div(collateral_amount, exchange_rate, Wide(RATE_SCALE))

\* deposit_reserve_liquidity on the reserve res at slot current_slot by a
\* user holding funds: its result, the cTokens it mints, the rate it used
\* and the Reserve it leaves
deposit_outcome(res, current_slot, liquidity_amount, funds) ==
    LET rate == updated_exchange_rate(res, current_slot)
        collateral == IF rate = <<>> THEN <<>>
                      ELSE liquidity_to_collateral(liquidity_amount, rate[1])
        failed(result) ==
            [result |-> result, out |-> Wide(0),
             rate |-> IF rate = <<>> THEN res.exchange_rate ELSE rate[1],
             reserve |-> res]
    IN  IF rate = <<>> \/ collateral = <<>> THEN failed("Panic")
        ELSE IF collateral[1] = Wide(0) THEN failed("ZeroCollateral")
        ELSE IF ~w_geq(funds, liquidity_amount) THEN failed("InsufficientFunds")
        ELSE LET liquidity == checked_add(res.total_liquidity, liquidity_amount)
                 minted == checked_add(res.total_collateral, collateral[1])
             IN  IF liquidity = <<>> \/ minted = <<>> THEN failed("Panic")
                 ELSE [result |-> "Ok", out |-> collateral[1], rate |-> rate[1],
                       reserve |-> [res EXCEPT
                                      !.exchange_rate = rate[1],
                                      !.last_update_slot = current_slot,
                                      !.total_liquidity = liquidity[1],
                                      !.total_collateral = minted[1]]]

\* redeem_reserve_collateral on the reserve res at slot current_slot by a
\* user holding ctokens, the supply account holding supply: its result, the
\* liquidity it pays, the rate it used and the Reserve it leaves
redeem_outcome(res, current_slot, collateral_amount, ctokens, supply) ==
    LET rate == updated_exchange_rate(res, current_slot)
        liquidity == IF rate = <<>> THEN <<>>
                     ELSE collateral_to_liquidity(collateral_amount, rate[1])
        failed(result) ==
            [result |-> result, out |-> Wide(0),
             rate |-> IF rate = <<>> THEN res.exchange_rate ELSE rate[1],
             reserve |-> res]
    IN  IF rate = <<>> \/ liquidity = <<>> THEN failed("Panic")
        ELSE IF liquidity[1] = Wide(0) THEN failed("ZeroLiquidity")
        ELSE IF ~w_geq(res.total_liquidity, liquidity[1])
             THEN failed("InsufficientLiquidity")
        ELSE IF ~w_geq(ctokens, collateral_amount) \/ ~w_geq(supply, liquidity[1])
             THEN failed("InsufficientFunds")
        ELSE LET left == checked_sub(res.total_liquidity, liquidity[1])
                 burnt == checked_sub(res.total_collateral, collateral_amount)
             IN  IF left = <<>> \/ burnt = <<>> THEN failed("Panic")
                 ELSE [result |-> "Ok", out |-> liquidity[1], rate |-> rate[1],
                       reserve |-> [res EXCEPT
                                      !.exchange_rate = rate[1],
                                      !.last_update_slot = current_slot,
                                      !.total_liquidity = left[1],
                                      !.total_collateral = burnt[1]]]

NoReserve ==
    [exchange_rate |-> Wide(0), last_update_slot |-> 0,
     total_liquidity |-> Wide(0), total_collateral |-> Wide(0),
     yield_rate_bps |-> 0]

NoReserveOp ==
    [op |-> "none", amount |-> Wide(0), result |-> "Ok", out |-> Wide(0),
     rate |-> Wide(0), slot |-> 0]

ReserveIdle ==
    /\ reserve_exists = FALSE
    /\ reserve = NoReserve
    /\ clock_slot = 0
    /\ user_liquidity = Wide(ReserveUserTokens)
    /\ user_collateral = Wide(0)
    /\ reserve_liquidity_supply = Wide(0)
    /\ k_ops = 0
    /\ k_last = NoReserveOp

\* one instruction on the reserve, run at the current slot
Ran_on_reserve(op, amount, outcome) ==
    /\ reserve_exists
    /\ k_ops < MaxReserveOps
    /\ k_ops' = k_ops + 1
    /\ reserve' = outcome.reserve
    /\ k_last' = [op |-> op, amount |-> amount, result |-> outcome.result,
                  out |-> outcome.out, rate |-> outcome.rate,
                  slot |-> clock_slot]
    /\ UNCHANGED <<reserve_exists, clock_slot>>

init_reserve ==
    \E initial_exchange_rate \in ReserveRates :
        /\ ~reserve_exists
        /\ reserve_exists' = TRUE
        /\ reserve' = [exchange_rate |-> initial_exchange_rate,
                       last_update_slot |-> clock_slot,
                       total_liquidity |-> Wide(0),
                       total_collateral |-> Wide(0),
                       yield_rate_bps |-> YIELD_RATE_BPS]
        /\ UNCHANGED <<clock_slot, user_liquidity, user_collateral,
                       reserve_liquidity_supply, k_ops, k_last>>

deposit_reserve_liquidity ==
    \E liquidity_amount \in LiquidityAmounts :
        LET o == deposit_outcome(reserve, clock_slot, liquidity_amount,
                                 user_liquidity)
        IN  /\ Ran_on_reserve("deposit_reserve_liquidity", liquidity_amount, o)
            /\ IF o.result = "Ok"
               THEN /\ user_liquidity' = w_sub(user_liquidity, liquidity_amount)
                    /\ reserve_liquidity_supply' =
                           w_add(reserve_liquidity_supply, liquidity_amount)
                    /\ user_collateral' = w_add(user_collateral, o.out)
               ELSE UNCHANGED <<user_liquidity, user_collateral,
                                reserve_liquidity_supply>>

redeem_reserve_collateral ==
    \E collateral_amount \in RedeemAmounts :
        LET o == redeem_outcome(reserve, clock_slot, collateral_amount,
                                user_collateral, reserve_liquidity_supply)
        IN  /\ Ran_on_reserve("redeem_reserve_collateral", collateral_amount, o)
            /\ IF o.result = "Ok"
               THEN /\ user_collateral' = w_sub(user_collateral, collateral_amount)
                    /\ reserve_liquidity_supply' =
                           w_sub(reserve_liquidity_supply, o.out)
                    /\ user_liquidity' = w_add(user_liquidity, o.out)
               ELSE UNCHANGED <<user_liquidity, user_collateral,
                                reserve_liquidity_supply>>

\* the rate rises by additional_liquidity * 1e6 / max(total_collateral, 1) and
\* total_liquidity by additional_liquidity; no token is moved
accrue_yield ==
    \E additional_liquidity \in YieldAmounts :
        LET rate_increase ==
                mul_div(additional_liquidity, Wide(RATE_SCALE),
                        w_max(reserve.total_collateral, Wide(1)))
            rate == IF rate_increase = <<>> THEN <<>>
                    ELSE checked_add(reserve.exchange_rate, rate_increase[1])
            liquidity == checked_add(reserve.total_liquidity, additional_liquidity)
            o == IF rate = <<>> \/ liquidity = <<>>
                 THEN [result |-> "Panic", out |-> Wide(0),
                       rate |-> reserve.exchange_rate, reserve |-> reserve]
                 ELSE [result |-> "Ok", out |-> rate_increase[1], rate |-> rate[1],
                       reserve |-> [reserve EXCEPT
                                      !.exchange_rate = rate[1],
                                      !.total_liquidity = liquidity[1]]]
        IN  /\ Ran_on_reserve("accrue_yield", additional_liquidity, o)
            /\ UNCHANGED <<user_liquidity, user_collateral,
                           reserve_liquidity_supply>>

\* SlotStep slots pass
advance_slot ==
    /\ reserve_exists
    /\ k_ops < MaxReserveOps
    /\ k_ops' = k_ops + 1
    /\ clock_slot' = clock_slot + SlotStep
    /\ UNCHANGED <<reserve_exists, reserve, user_liquidity, user_collateral,
                   reserve_liquidity_supply, k_last>>

----------------------------------------------------------------------------
(* The on-chain program: programs/ghost_pool/src/lib.rs                    *)
(*                                                                         *)
(* A u128 nonce is held like a u64 above: a small integer r standing for   *)
(* r mod 2^128, r < 0 for 2^128 + r.                                       *)

VARIABLES
    pool_exists,     \* the GhostPool account and its vault have been created
    pool,            \* the fields of the GhostPool account
    vault_tokens,    \* balance of the pool's vault token account
    user_tokens,     \* balance of the depositors' token accounts
    kamino_tokens,   \* balance of the lending reserve's liquidity supply
    computations,    \* the computations queued and not yet called back
    next_offset,     \* computations queued so far
    tokens_in,       \* history: tokens the deposit instruction moved to the vault
    accepted,        \* history: the callbacks that wrote a re-encrypted state
    last             \* history: the instruction executed last and its result

program_vars == <<pool_exists, pool, vault_tokens, user_tokens, kamino_tokens,
                  computations, next_offset, tokens_in, accepted, last>>

vars == <<program_vars, ledger_vars, wide_vars, reserve_vars>>

Signers == {"authority", "user"}

\* the nonces initialize_pool is given: 0 and 2^128 - 1
Nonces == {0, -1}

\* the investment thresholds initialize_pool is given
Thresholds == {0, MaxAmount}

\* the unix timestamps the clock shows
Times == 1..MaxClock

\* faulty variant: the counter is left as it was
wrapping_add_1_Skipped(n) == n

\* u128::wrapping_add(1)
wrapping_add_1(n) == n + 1

\* the nonce the network seals an output under: the request's, plus one
mxe_next_nonce(n) == n + 1

\* the unsigned values of two u128 satisfy b = a + n, without wrapping
PlusNoWrap(a, n, b) == (a < 0) = (b < 0) /\ b = a + n

\* Enc<Mxe, PoolState>: the ciphertext of a PoolState under a nonce.  The
\* account is created holding 13 zeroed field elements, no ciphertext at all.
zero_blob == [sealed |-> FALSE, nonce |-> 0, data |-> init_pool_state]

mxe_encrypt(state, nonce) == [sealed |-> TRUE, nonce |-> nonce, data |-> state]

\* decryption gives the state back only under the nonce it was sealed with
mxe_decrypts(blob, nonce) == blob.sealed /\ blob.nonce = nonce

NoOutput ==
    [blob |-> zero_blob, flag |-> FALSE, amount |-> 0, found_idx |-> 0]

NoInstruction ==
    [ix |-> "none", offset |-> 0, result |-> "Ok", verified |-> FALSE,
     output |-> NoOutput, now |-> 0, signer |-> "none"]

ProgramIdle ==
    /\ pool_exists = FALSE
    /\ pool = [authority |-> "none",
               investment_threshold |-> 0,
               last_investment_time |-> 0,
               state_nonce |-> 0,
               encrypted_state |-> zero_blob,
               total_deposits |-> 0,
               total_withdrawals |-> 0,
               total_invested |-> 0,
               pending_investment_amount |-> 0,
               collateral_token_account |-> "default"]
    /\ vault_tokens = 0
    /\ user_tokens = InitialUserTokens
    /\ kamino_tokens = 0
    /\ computations = {}
    /\ next_offset = 0
    /\ tokens_in = 0
    /\ accepted = <<>>
    /\ last = NoInstruction

\* queue_computation: a new computation account under the next offset
CanQueue ==
    /\ next_offset < MaxComputations
    /\ Cardinality(computations) < MaxInFlight

Queued(ix, state_nonce, amount, password_hash, threshold) ==
    [offset |-> next_offset + 1, ix |-> ix, state_nonce |-> state_nonce,
     amount |-> amount, password_hash |-> password_hash,
     threshold |-> threshold,
     status |-> "queued", verified |-> FALSE, output |-> NoOutput,
     pre |-> init_pool_state, state_offset |-> 0, state_len |-> 0]

\* the callback or the investment executed last: what it was given and what
\* it returned
Ran(ix, offset, result, verified, output, now) ==
    [ix |-> ix, offset |-> offset, result |-> result, verified |-> verified,
     output |-> output, now |-> now, signer |-> "none"]

(* Instructions that queue a computation *)

\* faulty variant: the pool is created with an investment already pending
initialize_pool_Pending ==
    \E nonce \in Nonces, investment_threshold \in Thresholds :
        /\ ~pool_exists
        /\ CanQueue
        /\ pool_exists' = TRUE
        /\ pool' = [authority |-> "authority",
                    investment_threshold |-> investment_threshold,
                    last_investment_time |-> 0,
                    state_nonce |-> nonce,
                    encrypted_state |-> zero_blob,
                    total_deposits |-> 0,
                    total_withdrawals |-> 0,
                    total_invested |-> 0,
                    pending_investment_amount |-> 1,
                    collateral_token_account |-> "default"]
        /\ computations' = computations \cup
               {Queued("init_pool_state", nonce, 0, 0, 0)}
        /\ next_offset' = next_offset + 1
        /\ UNCHANGED <<vault_tokens, user_tokens, kamino_tokens, tokens_in,
                       accepted, last>>

initialize_pool ==
    \E nonce \in Nonces, investment_threshold \in Thresholds :
        /\ ~pool_exists
        /\ CanQueue
        /\ pool_exists' = TRUE
        /\ pool' = [authority |-> "authority",
                    investment_threshold |-> investment_threshold,
                    last_investment_time |-> 0,
                    state_nonce |-> nonce,
                    encrypted_state |-> zero_blob,
                    total_deposits |-> 0,
                    total_withdrawals |-> 0,
                    total_invested |-> 0,
                    pending_investment_amount |-> 0,
                    collateral_token_account |-> "default"]
        /\ computations' = computations \cup
               {Queued("init_pool_state", nonce, 0, 0, 0)}
        /\ next_offset' = next_offset + 1
        /\ UNCHANGED <<vault_tokens, user_tokens, kamino_tokens, tokens_in,
                       accepted, last>>

\* faulty variant: the computation is queued without the token transfer
deposit_NoTransfer ==
    \E amount \in Amounts, password_hash \in Hashes :
        /\ pool_exists
        /\ CanQueue
        /\ user_tokens >= amount
        /\ computations' = computations \cup
               {[Queued("process_deposit", pool.state_nonce, amount,
                        password_hash, 0)
                 EXCEPT !.state_offset = 106, !.state_len = 416]}
        /\ next_offset' = next_offset + 1
        /\ UNCHANGED <<pool_exists, pool, vault_tokens, user_tokens,
                       kamino_tokens, tokens_in, accepted, last>>

\* the token transfer of `amount` from the user to the vault, then the queueing
deposit ==
    \E amount \in Amounts, password_hash \in Hashes :
        /\ pool_exists
        /\ CanQueue
        /\ user_tokens >= amount
        /\ user_tokens' = user_tokens - amount
        /\ vault_tokens' = vault_tokens + amount
        /\ tokens_in' = tokens_in + amount
        /\ computations' = computations \cup
               {[Queued("process_deposit", pool.state_nonce, amount,
                        password_hash, 0)
                 EXCEPT !.state_offset = 106, !.state_len = 416]}
        /\ next_offset' = next_offset + 1
        /\ UNCHANGED <<pool_exists, pool, kamino_tokens, accepted, last>>

check_and_invest ==
    \E signer \in Signers :
        /\ pool_exists
        /\ CanQueue
        /\ computations' = computations \cup
               {[Queued("check_investment_needed", pool.state_nonce, 0, 0,
                        pool.investment_threshold)
                 EXCEPT !.state_offset = 106, !.state_len = 416]}
        /\ next_offset' = next_offset + 1
        /\ UNCHANGED <<pool_exists, pool, vault_tokens, user_tokens,
                       kamino_tokens, tokens_in, accepted, last>>

withdraw ==
    \E amount \in Amounts, password_hash \in Hashes :
        /\ pool_exists
        /\ CanQueue
        /\ computations' = computations \cup
               {[Queued("authorize_withdrawal", pool.state_nonce, amount,
                        password_hash, 0)
                 EXCEPT !.state_offset = 106, !.state_len = 416]}
        /\ next_offset' = next_offset + 1
        /\ UNCHANGED <<pool_exists, pool, vault_tokens, user_tokens,
                       kamino_tokens, tokens_in, accepted, last>>

(* The computation network: it reads the encrypted state the request points *)
(* at when it runs the circuit, decrypts it under the nonce the request     *)
(* carries and seals a state it returns under that nonce plus one.  A run   *)
(* whose output the callback cannot verify is an aborted computation; a     *)
(* state read under another nonce than it was sealed with is one.           *)

circuit_output(c, state) ==
    CASE c.ix = "init_pool_state" ->
           [NoOutput EXCEPT
              !.blob = mxe_encrypt(init_pool_state, mxe_next_nonce(c.state_nonce))]
      [] c.ix = "process_deposit" ->
           [NoOutput EXCEPT
              !.blob = mxe_encrypt(process_deposit(c.password_hash, c.amount, state),
                                   mxe_next_nonce(c.state_nonce))]
      [] c.ix = "check_investment_needed" ->
           LET d == check_investment_needed(state, c.threshold)
           IN  [NoOutput EXCEPT !.flag = d.should_invest,
                                !.amount = d.amount_to_invest]
      [] c.ix = "authorize_withdrawal" ->
           LET a == authorize_withdrawal(c.password_hash, c.amount, state)
           IN  [NoOutput EXCEPT !.flag = a.authorized,
                                !.amount = a.amount,
                                !.found_idx = a.found_idx]

execute_computation ==
    \E c \in computations, sound \in BOOLEAN :
        /\ c.status = "queued"
        /\ LET readable == \/ c.ix = "init_pool_state"
                           \/ mxe_decrypts(pool.encrypted_state, c.state_nonce)
               verified == sound /\ readable
               state == pool.encrypted_state.data
           IN  computations' = (computations \ {c}) \cup
                   {IF verified
                    THEN [c EXCEPT !.status = "executed",
                                   !.verified = TRUE,
                                   !.output = circuit_output(c, state),
                                   !.pre = IF c.ix = "init_pool_state"
                                           THEN init_pool_state ELSE state]
                    ELSE [c EXCEPT !.status = "executed"]}
        /\ UNCHANGED <<pool_exists, pool, vault_tokens, user_tokens,
                       kamino_tokens, next_offset, tokens_in, accepted, last>>

(* Callbacks *)

Accepted(c) ==
    [offset |-> c.offset, ix |-> c.ix, state_nonce |-> c.state_nonce,
     amount |-> c.amount, password_hash |-> c.password_hash, pre |-> c.pre,
     blob |-> c.output.blob]

\* faulty variant: the failed verification is not noticed before the counter is bumped
Aborted_Counted(c, name) ==
    /\ last' = Ran(name, c.offset, "AbortedComputation", FALSE, NoOutput, 0)
    /\ pool' = [pool EXCEPT !.state_nonce = wrapping_add_1(pool.state_nonce)]
    /\ UNCHANGED <<pool_exists, vault_tokens, user_tokens, kamino_tokens,
                   next_offset, tokens_in, accepted>>

\* verify_output failed: Err(AbortedComputation), nothing written
Aborted(c, name) ==
    /\ last' = Ran(name, c.offset, "AbortedComputation", FALSE, NoOutput, 0)
    /\ UNCHANGED <<pool_exists, pool, vault_tokens, user_tokens, kamino_tokens,
                   next_offset, tokens_in, accepted>>

init_pool_state_callback ==
    \E c \in computations :
        /\ c.status = "executed" /\ c.ix = "init_pool_state"
        /\ computations' = computations \ {c}
        /\ IF ~c.verified
           THEN Aborted(c, "init_pool_state_callback")
           ELSE /\ pool' = [pool EXCEPT
                              !.encrypted_state = c.output.blob,
                              !.state_nonce = wrapping_add_1(pool.state_nonce)]
                /\ accepted' = Append(accepted, Accepted(c))
                /\ last' = Ran("init_pool_state_callback", c.offset, "Ok", TRUE,
                               c.output, 0)
                /\ UNCHANGED <<pool_exists, vault_tokens, user_tokens,
                               kamino_tokens, next_offset, tokens_in>>

process_deposit_callback ==
    \E c \in computations :
        /\ c.status = "executed" /\ c.ix = "process_deposit"
        /\ computations' = computations \ {c}
        /\ IF ~c.verified
           THEN Aborted(c, "process_deposit_callback")
           ELSE /\ pool' = [pool EXCEPT
                              !.encrypted_state = c.output.blob,
                              !.state_nonce = wrapping_add_1(pool.state_nonce),
                              !.total_deposits = @ + 1]
                /\ accepted' = Append(accepted, Accepted(c))
                /\ last' = Ran("process_deposit_callback", c.offset, "Ok", TRUE,
                               c.output, 0)
                /\ UNCHANGED <<pool_exists, vault_tokens, user_tokens,
                               kamino_tokens, next_offset, tokens_in>>

\* faulty variant: the approved amount is added to the pending one
check_investment_needed_callback_Adds ==
    \E c \in computations :
        /\ c.status = "executed" /\ c.ix = "check_investment_needed"
        /\ computations' = computations \ {c}
        /\ IF ~c.verified
           THEN Aborted(c, "check_investment_needed_callback")
           ELSE /\ pool' = IF c.output.flag /\ c.output.amount # 0
                           THEN [pool EXCEPT
                                   !.pending_investment_amount =
                                       @ + c.output.amount]
                           ELSE pool
                /\ last' = Ran("check_investment_needed_callback", c.offset, "Ok",
                               TRUE, c.output, 0)
                /\ UNCHANGED <<pool_exists, vault_tokens, user_tokens,
                               kamino_tokens, next_offset, tokens_in, accepted>>

check_investment_needed_callback ==
    \E c \in computations :
        /\ c.status = "executed" /\ c.ix = "check_investment_needed"
        /\ computations' = computations \ {c}
        /\ IF ~c.verified
           THEN Aborted(c, "check_investment_needed_callback")
           ELSE /\ pool' = IF c.output.flag /\ c.output.amount # 0
                           THEN [pool EXCEPT
                                   !.pending_investment_amount = c.output.amount]
                           ELSE pool
                /\ last' = Ran("check_investment_needed_callback", c.offset, "Ok",
                               TRUE, c.output, 0)
                /\ UNCHANGED <<pool_exists, vault_tokens, user_tokens,
                               kamino_tokens, next_offset, tokens_in, accepted>>

\* the vault holds the tokens a transfer CPI is asked to move
vault_covers(amount) == vault_tokens >= amount

\* faulty variant: the authorization flag is not looked at
withdrawal_approved_Unchecked(auth) == TRUE

\* if auth.field_0 && auth.field_1 > 0
withdrawal_approved(auth) == auth.flag /\ auth.amount # 0

\* faulty variant: the withdrawal counter is not advanced
pay_out_Uncounted(amount) ==
    /\ vault_tokens' = vault_tokens - amount
    /\ user_tokens' = user_tokens + amount
    /\ pool' = pool

\* faulty variant: paying out also advances the version counter
pay_out_BumpsVersion(amount) ==
    /\ vault_tokens' = vault_tokens - amount
    /\ user_tokens' = user_tokens + amount
    /\ pool' = [pool EXCEPT !.total_withdrawals = @ + 1,
                            !.state_nonce = wrapping_add_1(@)]

\* the transfer from the vault to the user, then total_withdrawals += 1
pay_out(amount) ==
    /\ vault_tokens' = vault_tokens - amount
    /\ user_tokens' = user_tokens + amount
    /\ pool' = [pool EXCEPT !.total_withdrawals = @ + 1]

authorize_withdrawal_callback ==
    \E c \in computations :
        /\ c.status = "executed" /\ c.ix = "authorize_withdrawal"
        /\ computations' = computations \ {c}
        /\ IF ~c.verified
           THEN Aborted(c, "authorize_withdrawal_callback")
           ELSE IF withdrawal_approved(c.output)
           THEN IF vault_covers(c.output.amount)
                THEN /\ pay_out(c.output.amount)
                     /\ last' = Ran("authorize_withdrawal_callback", c.offset, "Ok",
                                    TRUE, c.output, 0)
                     /\ UNCHANGED <<pool_exists, kamino_tokens, next_offset,
                                    tokens_in, accepted>>
                ELSE /\ last' = Ran("authorize_withdrawal_callback", c.offset,
                                    "InsufficientFunds", TRUE, c.output, 0)
                     /\ UNCHANGED <<pool_exists, pool, vault_tokens, user_tokens,
                                    kamino_tokens, next_offset, tokens_in, accepted>>
           ELSE /\ last' = Ran("authorize_withdrawal_callback", c.offset,
                               "WithdrawalUnauthorized", TRUE, c.output, 0)
                /\ UNCHANGED <<pool_exists, pool, vault_tokens, user_tokens,
                               kamino_tokens, next_offset, tokens_in, accepted>>

(* Instructions that queue nothing.  One that returns an error leaves no    *)
(* trace on the accounts: only the successful run is a step.               *)

\* faulty variant: any signer may invest the approved amount
invest_in_kamino_result_AnySigner(signer, cpi_ok) ==
    IF pool.pending_investment_amount = 0 THEN "NoPendingInvestment"
    ELSE IF ~cpi_ok \/ ~vault_covers(pool.pending_investment_amount)
         THEN "CpiFailed"
    ELSE "Ok"

\* what invest_in_kamino returns: the account constraints (has_one, then the
\* pending amount), the require!, then the CPI into the lending program
invest_in_kamino_result(signer, cpi_ok) ==
    IF signer # pool.authority THEN "Unauthorized"
    ELSE IF pool.pending_investment_amount = 0 THEN "NoPendingInvestment"
    ELSE IF ~cpi_ok \/ ~vault_covers(pool.pending_investment_amount)
         THEN "CpiFailed"
    ELSE "Ok"

\* faulty variant: the approved amount stays pending after the transfer
invest_in_kamino_KeepsPending ==
    \E signer \in Signers, now \in Times, cpi_ok \in BOOLEAN :
        /\ pool_exists
        /\ invest_in_kamino_result(signer, cpi_ok) = "Ok"
        /\ LET amount == pool.pending_investment_amount
           IN  /\ vault_tokens' = vault_tokens - amount
               /\ kamino_tokens' = kamino_tokens + amount
               /\ pool' = [pool EXCEPT
                             !.total_invested = @ + amount,
                             !.last_investment_time = now,
                             !.collateral_token_account = "collateral"]
        /\ last' = [Ran("invest_in_kamino", 0, "Ok", FALSE, NoOutput, now)
                       EXCEPT !.signer = signer]
        /\ UNCHANGED <<pool_exists, user_tokens, computations, next_offset,
                       tokens_in, accepted>>

invest_in_kamino ==
    \E signer \in Signers, now \in Times, cpi_ok \in BOOLEAN :
        /\ pool_exists
        /\ invest_in_kamino_result(signer, cpi_ok) = "Ok"
        /\ LET amount == pool.pending_investment_amount
           IN  /\ vault_tokens' = vault_tokens - amount
               /\ kamino_tokens' = kamino_tokens + amount
               /\ pool' = [pool EXCEPT
                             !.total_invested = @ + amount,
                             !.pending_investment_amount = 0,
                             !.last_investment_time = now,
                             !.collateral_token_account = "collateral"]
        /\ last' = [Ran("invest_in_kamino", 0, "Ok", FALSE, NoOutput, now)
                       EXCEPT !.signer = signer]
        /\ UNCHANGED <<pool_exists, user_tokens, computations, next_offset,
                       tokens_in, accepted>>

set_collateral_account_result(signer) ==
    IF signer # pool.authority THEN "Unauthorized" ELSE "Ok"

set_collateral_account ==
    \E signer \in Signers :
        /\ pool_exists
        /\ set_collateral_account_result(signer) = "Ok"
        /\ pool' = [pool EXCEPT !.collateral_token_account = "collateral"]
        /\ UNCHANGED <<pool_exists, vault_tokens, user_tokens, kamino_tokens,
                       computations, next_offset, tokens_in, accepted, last>>

----------------------------------------------------------------------------
(* Specifications *)

Init == ProgramIdle /\ LedgerIdle /\ WideIdle /\ ReserveIdle

Next ==
    \/ initialize_pool /\ UNCHANGED <<ledger_vars, wide_vars, reserve_vars>>
    \/ deposit /\ UNCHANGED <<ledger_vars, wide_vars, reserve_vars>>
    \/ check_and_invest /\ UNCHANGED <<ledger_vars, wide_vars, reserve_vars>>
    \/ withdraw /\ UNCHANGED <<ledger_vars, wide_vars, reserve_vars>>
    \/ execute_computation /\ UNCHANGED <<ledger_vars, wide_vars, reserve_vars>>
    \/ init_pool_state_callback /\ UNCHANGED <<ledger_vars, wide_vars, reserve_vars>>
    \/ process_deposit_callback /\ UNCHANGED <<ledger_vars, wide_vars, reserve_vars>>
    \/ check_investment_needed_callback /\ UNCHANGED <<ledger_vars, wide_vars, reserve_vars>>
    \/ authorize_withdrawal_callback /\ UNCHANGED <<ledger_vars, wide_vars, reserve_vars>>
    \/ invest_in_kamino /\ UNCHANGED <<ledger_vars, wide_vars, reserve_vars>>
    \/ set_collateral_account /\ UNCHANGED <<ledger_vars, wide_vars, reserve_vars>>

Spec == Init /\ [][Next]_vars

LedgerInit == LedgerReady /\ ProgramIdle /\ WideIdle /\ ReserveIdle

LedgerNext ==
    \/ LDeposit /\ UNCHANGED <<program_vars, wide_vars, reserve_vars>>
    \/ LRecordInvestment /\ UNCHANGED <<program_vars, wide_vars, reserve_vars>>
    \/ LRecordYield /\ UNCHANGED <<program_vars, wide_vars, reserve_vars>>
    \/ LAuthorize /\ UNCHANGED <<program_vars, wide_vars, reserve_vars>>
    \/ LWithdraw /\ UNCHANGED <<program_vars, wide_vars, reserve_vars>>

LedgerSpec == LedgerInit /\ [][LedgerNext]_vars

\* the circuits with process_withdrawal open to every idx and amount
WithdrawalInit == LedgerReady /\ ProgramIdle /\ WideIdle /\ ReserveIdle

WithdrawalNext ==
    \/ LDeposit /\ UNCHANGED <<program_vars, wide_vars, reserve_vars>>
    \/ LRecordInvestment /\ UNCHANGED <<program_vars, wide_vars, reserve_vars>>
    \/ LRecordYield /\ UNCHANGED <<program_vars, wide_vars, reserve_vars>>
    \/ LAuthorize /\ UNCHANGED <<program_vars, wide_vars, reserve_vars>>
    \/ LWithdraw /\ UNCHANGED <<program_vars, wide_vars, reserve_vars>>
    \/ LProcessWithdrawal /\ UNCHANGED <<program_vars, wide_vars, reserve_vars>>

WithdrawalSpec == WithdrawalInit /\ [][WithdrawalNext]_vars

\* the circuits at full width, in a build with or without overflow checks
WideInit == LedgerReady /\ ProgramIdle /\ WideIdle /\ ReserveIdle

WideNext ==
    \/ WDeposit /\ UNCHANGED <<program_vars, ledger_vars, reserve_vars>>
    \/ WRecordYield /\ UNCHANGED <<program_vars, ledger_vars, reserve_vars>>

WideSpec == WideInit /\ [][WideNext]_vars

\* the lending reserve on its own
ReserveInit == ReserveIdle /\ ProgramIdle /\ LedgerIdle /\ WideIdle

ReserveNext ==
    \/ init_reserve /\ UNCHANGED <<program_vars, ledger_vars, wide_vars>>
    \/ deposit_reserve_liquidity /\ UNCHANGED <<program_vars, ledger_vars, wide_vars>>
    \/ redeem_reserve_collateral /\ UNCHANGED <<program_vars, ledger_vars, wide_vars>>
    \/ accrue_yield /\ UNCHANGED <<program_vars, ledger_vars, wide_vars>>
    \/ advance_slot /\ UNCHANGED <<program_vars, ledger_vars, wide_vars>>

ReserveSpec == ReserveInit /\ [][ReserveNext]_vars

----------------------------------------------------------------------------
(* Properties *)

\* the PoolState held in the pool account's encrypted_state
stored == pool.encrypted_state.data

\* the callback that consumes computation c runs in this step
CallbackOf(c) ==
    /\ c \in computations
    /\ c.status = "executed"
    /\ c \notin computations'

AcceptedDeposits == {i \in DOMAIN accepted : accepted[i].ix = "process_deposit"}

\* the first inactive slot of a PoolState that has one
FirstFree(state) ==
    CHOOSE k \in SlotIdx :
        /\ ~state.deposits[k].is_active
        /\ \A m \in SlotIdx : m < k => state.deposits[m].is_active

HasFree(state) == \E k \in SlotIdx : ~state.deposits[k].is_active

\* C1 (as the specification states it): every accepted process-deposit
\* callback is applied to the stored ledger exactly once, so the stored
\* ledger counts as many deposits as callbacks were accepted, up to its
\* capacity.
C1_ExactlyOnce ==
    pool.encrypted_state.sealed =>
        stored.deposit_count =
            IF Cardinality(AcceptedDeposits) < MAX_DEPOSITS
            THEN Cardinality(AcceptedDeposits) ELSE MAX_DEPOSITS

\* C2 (as the specification states it): no two accepted state-writing
\* callbacks were computed against the same value of the version counter.
C2_DistinctVersions ==
    \A i, j \in DOMAIN accepted :
        i # j => accepted[i].state_nonce # accepted[j].state_nonce

\* C3: two accepted deposits requested at the same value of the version
\* counter were computed against the same pre-state; once the second of their
\* callbacks has landed (and is the last write of the state) the stored
\* ledger is that pre-state with the one deposit of the second added (slot,
\* totals and counter), while the tokens of both were moved to the vault.
C3_LastWriterWins ==
    \A i, j \in AcceptedDeposits :
        (/\ i < j
         /\ accepted[i].state_nonce = accepted[j].state_nonce
         /\ j = Len(accepted)) =>
            LET pre == accepted[j].pre
                second == accepted[j]
            IN  /\ accepted[i].pre = pre
                /\ pool.encrypted_state = second.blob
                /\ IF HasFree(pre)
                   THEN /\ stored.deposit_count = pre.deposit_count + 1
                        /\ stored.total_deposited = pre.total_deposited + second.amount
                        /\ stored.pending_deposits = pre.pending_deposits + second.amount
                        /\ stored.deposits[FirstFree(pre)] =
                               [password_hash |-> second.password_hash,
                                principal |-> second.amount,
                                last_yield_checkpoint |-> pre.yield_per_share,
                                is_active |-> TRUE]
                        /\ \A k \in SlotIdx \ {FirstFree(pre)} :
                               stored.deposits[k] = pre.deposits[k]
                   ELSE stored = pre
                /\ tokens_in >= pre.total_deposited + accepted[i].amount + second.amount

C3_Witness ==
    \E i, j \in AcceptedDeposits :
        /\ i < j
        /\ accepted[i].state_nonce = accepted[j].state_nonce
        /\ j = Len(accepted)
        /\ accepted[i].amount > 0
        /\ accepted[j].amount > 0
        /\ stored.total_deposited < tokens_in

\* C4 (as the specification states it): the callback step that moves tokens
\* out of the vault also debits the matched slot of the stored ledger by the
\* amount it paid.
C4_TransferDebits ==
    [][\A c \in computations :
          (CallbackOf(c) /\ c.ix = "authorize_withdrawal"
                         /\ vault_tokens' < vault_tokens) =>
              current_balance(stored', c.output.found_idx) =
                  current_balance(stored, c.output.found_idx) - c.output.amount]_vars

\* C5 (as the specification states it): with no request in flight and every
\* deposited token recorded in the ledger, the vault holds total_deposited
\* minus total_invested.
C5_VaultMatchesLedger ==
    (/\ computations = {}
     /\ pool.encrypted_state.sealed
     /\ stored.yield_per_share = 0
     /\ stored.total_deposited = tokens_in) =>
        vault_tokens = stored.total_deposited - stored.total_invested

\* C6: after n accepted callbacks that return a re-encrypted state the
\* version counter is the nonce given to initialize_pool plus n modulo 2^128
\* and the stored blob is the one the last of them returned; before the first
\* the counter is the nonce given and the blob is the zeroed one.
C6_CounterCountsAccepted ==
    pool_exists =>
        IF accepted = <<>>
        THEN /\ pool.state_nonce \in Nonces
             /\ pool.encrypted_state = zero_blob
             /\ \A c \in computations :
                    c.ix = "init_pool_state" => c.state_nonce = pool.state_nonce
        ELSE /\ accepted[1].ix = "init_pool_state"
             /\ pool.state_nonce = accepted[1].state_nonce + Len(accepted)
             /\ pool.encrypted_state = accepted[Len(accepted)].blob

C6_Witness ==
    /\ Len(accepted) = 3
    /\ accepted[1].state_nonce = -1
    /\ pool.state_nonce = 2

\* C6 (as the specification states it): the counter is the nonce given to
\* initialize_pool plus n as unsigned integers.
C6_CounterPlusN ==
    accepted # <<>> =>
        PlusNoWrap(accepted[1].state_nonce, Len(accepted), pool.state_nonce)

C8_UnauthorizedRejected ==
    [][\A c \in computations :
          (/\ CallbackOf(c)
           /\ c.ix = "authorize_withdrawal"
           /\ c.verified
           /\ ~c.output.flag) =>
              /\ last'.result = "WithdrawalUnauthorized"
              /\ UNCHANGED <<pool, vault_tokens, user_tokens, kamino_tokens>>]_vars

C8_Witness ==
    /\ last.ix = "authorize_withdrawal_callback"
    /\ last.result = "WithdrawalUnauthorized"
    /\ last.verified
    /\ ~last.output.flag
    /\ stored.deposit_count = 1
    /\ vault_tokens > 0

\* C9: a callback whose computation output fails verification returns
\* AbortedComputation and leaves the pool account and the token balances as
\* they were, whichever of the four callbacks it is.
C9_AbortLeavesState ==
    [][\A c \in computations :
          (CallbackOf(c) /\ ~c.verified) =>
              /\ last'.result = "AbortedComputation"
              /\ last'.offset = c.offset
              /\ UNCHANGED <<pool_exists, pool, vault_tokens, user_tokens,
                             kamino_tokens, accepted>>]_vars

C9_Witness ==
    /\ last.ix = "process_deposit_callback"
    /\ last.result = "AbortedComputation"
    /\ pool.encrypted_state.sealed
    /\ vault_tokens > stored.total_deposited

\* C10: in every ledger state reached by process_deposit, record_yield,
\* record_investment and process_withdrawal with the idx and amount an
\* authorize_withdrawal on that state approved, deposit_count is the number
\* of slots whose is_active flag is set.
C10_CountIsActiveSlots ==
    ledger.deposit_count =
        Cardinality({i \in SlotIdx : ledger.deposits[i].is_active})

C10_Witness ==
    /\ l_last.op = "process_withdrawal"
    /\ ~l_last.aborted
    /\ ledger.deposit_count = 1
    /\ ~ledger.deposits[0].is_active
    /\ ledger.deposits[1].is_active

\* the circuit applied last ran to its end on the state l_last.pre
Completed(op) == l_last.op = op /\ ~l_last.aborted

\* the entry process_deposit writes for the inputs of the last circuit
NewEntry ==
    [password_hash |-> l_last.hash,
     principal |-> l_last.amount,
     last_yield_checkpoint |-> l_last.pre.yield_per_share,
     is_active |-> TRUE]

\* the sum of the principals of the active slots i..MAX_DEPOSITS-1
RECURSIVE ActivePrincipal(_, _)
ActivePrincipal(state, i) ==
    IF i = MAX_DEPOSITS THEN 0
    ELSE (IF state.deposits[i].is_active THEN state.deposits[i].principal ELSE 0)
         + ActivePrincipal(state, i + 1)

\* the active slots that store a password hash
Matching(state, password_hash) ==
    {i \in SlotIdx : /\ state.deposits[i].is_active
                     /\ state.deposits[i].password_hash = password_hash}

\* the lowest index of a non-empty set of slots
Lowest(S) == CHOOSE i \in S : \A j \in S : i <= j

\* C11 (as the specification states it): in every ledger state reached by
\* process_deposit, record_investment, record_yield and authorized
\* process_withdrawal in which no field holds a wrapped value,
\* pending_deposits + total_invested <= total_deposited.
C11_PendingAndInvestedCovered ==
    (/\ ledger.pending_deposits >= 0
     /\ ledger.total_invested >= 0
     /\ ledger.total_deposited >= 0) =>
        ledger.pending_deposits + ledger.total_invested <= ledger.total_deposited

\* C12: after deposits that all found a slot, interleaved with record_yield
\* calls and nothing else, total_deposited is the sum of the principals of
\* the active slots plus the yield recorded while total_deposited > 0.
C12_TotalIsPrincipalPlusYield ==
    (l_ops = ledger.deposit_count + l_yields) =>
        ledger.total_deposited = ActivePrincipal(ledger, 0) + l_credited

C12_Witness ==
    /\ l_ops = ledger.deposit_count + l_yields
    /\ ledger.deposit_count = 2
    /\ l_yields = 2
    /\ l_credited = 1
    /\ ledger.total_deposited = 2

\* C13 (for index values the small-integer ledger holds): no circuit lowers
\* yield_per_share: after every step of every sequence of process_deposit,
\* record_investment, record_yield, authorize_withdrawal and
\* process_withdrawal its value is at least what it was before.
C13_IndexNeverFalls ==
    [][Geq64(ledger'.yield_per_share, ledger.yield_per_share)]_vars

C13_Witness ==
    /\ Completed("record_yield")
    /\ l_last.pre.yield_per_share > 0
    /\ ledger.yield_per_share > l_last.pre.yield_per_share

\* C14: process_deposit on a PoolState whose slots are all active returns it
\* equal in every field, for every password hash and amount, and so does
\* applying it once more.
C14_FullPoolDropsDeposit ==
    /\ (Completed("process_deposit") /\ ~HasFree(l_last.pre)) =>
           ledger = l_last.pre
    /\ ~HasFree(ledger) =>
           \A h \in Hashes, a \in Amounts :
               /\ process_deposit(h, a, ledger) = ledger
               /\ process_deposit(h, a, process_deposit(h, a, ledger)) = ledger

C14_Witness ==
    /\ Completed("process_deposit")
    /\ ~HasFree(l_last.pre)
    /\ l_last.amount > 0
    /\ l_last.hash # l_last.pre.deposits[0].password_hash

\* C16: when a slot is inactive, process_deposit writes the new entry
\* (supplied hash, principal = amount, checkpoint = current yield_per_share,
\* active) into the inactive slot of lowest index and leaves every other slot
\* as it was.
C16_LowestFreeSlotTaken ==
    (Completed("process_deposit") /\ HasFree(l_last.pre)) =>
        LET k == Lowest({i \in SlotIdx : ~l_last.pre.deposits[i].is_active})
        IN  /\ ledger.deposits[k] = NewEntry
            /\ \A i \in SlotIdx \ {k} : ledger.deposits[i] = l_last.pre.deposits[i]

C16_Witness ==
    /\ Completed("process_deposit")
    /\ ~l_last.pre.deposits[0].is_active
    /\ ~l_last.pre.deposits[1].is_active
    /\ l_last.amount > 0
    /\ l_last.hash > 0
    /\ ledger.deposits[0].is_active
    /\ ~ledger.deposits[1].is_active

\* C17: right after a deposit of amount a that found a slot, whatever the
\* yield index, the balance of the new slot is a, and authorize_withdrawal
\* answering for that slot authorizes exactly the amounts <= a.
C17_NoRetroactiveYield ==
    (Completed("process_deposit") /\ HasFree(l_last.pre)) =>
        LET k == Lowest({i \in SlotIdx : ~l_last.pre.deposits[i].is_active})
        IN  /\ current_balance(ledger, k) = l_last.amount
            /\ \A req \in 0..(MaxAmount + 1) :
                   LET auth == authorize_withdrawal(l_last.hash, req, ledger)
                   IN  auth.found_idx = k =>
                           (auth.authorized <=> req <= l_last.amount)

C17_Witness ==
    /\ Completed("process_deposit")
    /\ l_last.pre.yield_per_share > 0
    /\ l_last.amount > 0
    /\ l_last.pre.deposits[0].is_active
    /\ current_balance(ledger, 0) > l_last.pre.deposits[0].principal
    /\ authorize_withdrawal(l_last.hash, l_last.amount, ledger).found_idx = 1

\* C18: authorize_withdrawal reveals authorized = true exactly when an active
\* slot stores the supplied hash and the balance of the first such slot is at
\* least the requested amount; the revealed amount is the requested one when
\* authorized and 0 otherwise; found_idx is the first such slot; the
\* PoolState is left as it was.
C18_AuthorizationDecision ==
    Completed("authorize_withdrawal") =>
        LET auth == authorize_withdrawal(l_last.hash, l_last.amount, l_last.pre)
            S == Matching(l_last.pre, l_last.hash)
            expected == /\ S # {}
                        /\ Geq64(current_balance(l_last.pre, Lowest(S)),
                                 l_last.amount)
        IN  /\ auth.authorized = expected
            /\ auth.amount = IF expected THEN l_last.amount ELSE 0
            /\ S # {} => auth.found_idx = Lowest(S)
            /\ ledger = l_last.pre

C18_Witness ==
    /\ Completed("authorize_withdrawal")
    /\ l_last.amount = 1
    /\ Matching(l_last.pre, l_last.hash) # {}
    /\ ~authorize_withdrawal(l_last.hash, l_last.amount, l_last.pre).authorized

\* C19: process_withdrawal of a slot's whole balance leaves the slot inactive
\* with principal 0 and deposit_count one lower; a deposit that follows is
\* stored in that slot whenever it is the inactive slot of lowest index.
C19_FullWithdrawalFreesSlot ==
    (/\ Completed("process_withdrawal")
     /\ l_last.pre.deposits[l_last.idx].is_active
     /\ l_last.amount = current_balance(l_last.pre, l_last.idx)) =>
        /\ ~ledger.deposits[l_last.idx].is_active
        /\ ledger.deposits[l_last.idx].principal = 0
        /\ ledger.deposit_count = l_last.pre.deposit_count - 1
        /\ Geq64(l_last.pre.deposit_count, 1)
        /\ (\A i \in SlotIdx : i < l_last.idx => ledger.deposits[i].is_active) =>
               \A h \in Hashes, a \in Amounts :
                   process_deposit(h, a, ledger).deposits[l_last.idx] =
                       [password_hash |-> h, principal |-> a,
                        last_yield_checkpoint |-> ledger.yield_per_share,
                        is_active |-> TRUE]

C19_Witness ==
    /\ Completed("process_withdrawal")
    /\ l_last.idx = 1
    /\ l_last.amount > 0
    /\ l_last.amount = current_balance(l_last.pre, 1)
    /\ ledger.deposits[0].is_active
    /\ ~ledger.deposits[1].is_active

\* C20: process_withdrawal(idx, amount) with amount <= the slot's balance sets
\* the principal to the balance minus amount and the checkpoint to the
\* current yield_per_share, so the balance afterwards is the balance before
\* minus amount, and total_deposited falls by exactly amount.
C20_WithdrawalDebits ==
    (/\ Completed("process_withdrawal")
     /\ l_last.idx \in SlotIdx
     /\ Geq64(current_balance(l_last.pre, l_last.idx), l_last.amount)) =>
        LET before == current_balance(l_last.pre, l_last.idx)
            slot == ledger.deposits[l_last.idx]
        IN  /\ slot.principal = before - l_last.amount
            /\ slot.last_yield_checkpoint = ledger.yield_per_share
            /\ current_balance(ledger, l_last.idx) = before - l_last.amount
            /\ ledger.total_deposited = l_last.pre.total_deposited - l_last.amount
            /\ Geq64(l_last.pre.total_deposited, l_last.amount)

C20_Witness ==
    /\ Completed("process_withdrawal")
    /\ l_last.amount = 1
    /\ current_balance(l_last.pre, l_last.idx) = 2
    /\ l_last.pre.deposits[l_last.idx].last_yield_checkpoint
           < l_last.pre.yield_per_share
    /\ current_balance(ledger, l_last.idx) = 1

\* C15: a deposit submitted while every slot of the stored ledger is active
\* still moves its amount from the user to the vault, and its verified
\* callback returns Ok, counts the deposit in total_deposits and stores a
\* ledger equal to the one the computation was given: no slot or counter
\* records the deposit, and the tokens stay in the vault.
C15_FullPoolKeepsTokens ==
    [][/\ \A c \in computations' :
             (/\ c \notin computations
              /\ c.status = "queued"
              /\ c.ix = "process_deposit"
              /\ pool.encrypted_state.sealed
              /\ ~HasFree(stored)) =>
                 /\ vault_tokens' = vault_tokens + c.amount
                 /\ user_tokens' = user_tokens - c.amount
       /\ \A c \in computations :
             (/\ CallbackOf(c)
              /\ c.ix = "process_deposit"
              /\ c.verified
              /\ ~HasFree(c.pre)) =>
                 /\ last'.result = "Ok"
                 /\ pool'.total_deposits = pool.total_deposits + 1
                 /\ stored' = c.pre
                 /\ UNCHANGED <<vault_tokens, user_tokens>>]_vars

C15_Witness ==
    /\ last.ix = "process_deposit_callback"
    /\ last.result = "Ok"
    /\ Len(accepted) = 4
    /\ accepted[4].ix = "process_deposit"
    /\ accepted[4].state_nonce = accepted[3].state_nonce + 1
    /\ ~HasFree(accepted[4].pre)
    /\ accepted[4].amount = 1
    /\ stored = accepted[4].pre
    /\ vault_tokens = stored.total_deposited + 1


----------------------------------------------------------------------------
(* Underflow, yield shares and the investment trigger                      *)

\* the circuit applied last was given inputs whose subtraction underflows
Underflowed ==
    \/ /\ l_last.op = "record_investment"
       /\ record_investment_faults(l_last.pre, l_last.amount)
    \/ /\ l_last.op = "process_withdrawal"
       /\ process_withdrawal_faults(l_last.pre, l_last.idx, l_last.amount)

\* C21: a record_investment of more than pending_deposits, or a
\* process_withdrawal of more than the slot's balance or total_deposited,
\* aborts and leaves the ledger as it was: no field is wrapped modulo 2^64
\* or clamped to 0
C21_UnderflowAborts ==
    Underflowed => (l_last.aborted /\ ledger = l_last.pre)

\* the computation d is the verified run of the queued computation c
RunOf(c, d) ==
    /\ c \in computations /\ c.status = "queued"
    /\ d \in computations' /\ d.offset = c.offset
    /\ d.status = "executed" /\ d.verified

\* C25: check_investment_needed reveals should_invest = (pending_deposits >=
\* threshold), true also when the two are equal, and amount_to_invest =
\* pending_deposits when should_invest is true and 0 otherwise; the run leaves
\* the stored state and every other field of the pool as they were
C25_InvestmentDecision ==
    [][\A c \in computations, d \in computations' :
         (RunOf(c, d) /\ c.ix = "check_investment_needed") =>
             /\ stored.pending_deposits >= 0 /\ c.threshold >= 0
             /\ d.output.flag = (stored.pending_deposits >= c.threshold)
             /\ d.output.amount = IF stored.pending_deposits >= c.threshold
                                  THEN stored.pending_deposits ELSE 0
             /\ pool' = pool]_vars

\* a check run on pending_deposits equal to a non-zero threshold said invest
C25_Witness ==
    \E c \in computations :
        /\ c.ix = "check_investment_needed" /\ c.status = "executed"
        /\ c.verified
        /\ c.threshold > 0
        /\ c.pre.pending_deposits = c.threshold
        /\ c.output.flag
        /\ c.output.amount = c.threshold

InvestStep ==
    /\ computations' = computations
    /\ next_offset' = next_offset
    /\ \/ vault_tokens' # vault_tokens
       \/ kamino_tokens' # kamino_tokens
       \/ pool'.total_invested # pool.total_invested
       \/ pool'.pending_investment_amount # pool.pending_investment_amount

\* C27: a successful invest_in_kamino moves exactly pending_investment_amount
\* from the vault to the lending reserve, sets pending_investment_amount to 0,
\* raises total_invested by that amount and stores the clock's timestamp as
\* last_investment_time
C27_InvestmentMoves ==
    [][InvestStep =>
         LET amount == pool.pending_investment_amount
         IN  /\ amount > 0
             /\ vault_tokens >= amount
             /\ vault_tokens' = vault_tokens - amount
             /\ kamino_tokens' = kamino_tokens + amount
             /\ user_tokens' = user_tokens
             /\ pool'.pending_investment_amount = 0
             /\ pool'.total_invested = pool.total_invested + amount
             /\ last'.ix = "invest_in_kamino"
             /\ last'.now \in Times
             /\ pool'.last_investment_time = last'.now
             /\ pool'.state_nonce = pool.state_nonce
             /\ pool'.encrypted_state = pool.encrypted_state
             /\ pool'.total_deposits = pool.total_deposits
             /\ pool'.total_withdrawals = pool.total_withdrawals]_vars

\* an approved amount has been invested: it left the vault for the reserve
C27_Witness ==
    /\ last.ix = "invest_in_kamino"
    /\ kamino_tokens > 0
    /\ pool.total_invested = kamino_tokens
    /\ pool.pending_investment_amount = 0
    /\ pool.last_investment_time = last.now
    /\ last.now > 0

\* C28: invest_in_kamino succeeds only when the pool authority signs and
\* pending_investment_amount is above 0; any other signer is rejected with
\* Unauthorized and the authority with NoPendingInvestment when nothing is
\* pending.  A success leaves nothing pending, and only an accepted
\* check_investment_needed callback that approves makes an amount pending
\* again: two investments never succeed without such a callback between them
C28_InvestOncePerApproval ==
    [][/\ InvestStep =>
            /\ last'.signer = pool.authority
            /\ pool.pending_investment_amount > 0
            /\ pool'.pending_investment_amount = 0
       /\ (pool.pending_investment_amount = 0
             /\ pool'.pending_investment_amount # 0) =>
            \E c \in computations :
                /\ CallbackOf(c) /\ c.ix = "check_investment_needed"
                /\ c.verified /\ c.output.flag
                /\ c.output.amount = pool'.pending_investment_amount
       /\ pool_exists =>
            \A signer \in Signers, cpi_ok \in BOOLEAN :
                LET result == invest_in_kamino_result(signer, cpi_ok)
                IN  /\ result = "Ok" =>
                          /\ signer = pool.authority
                          /\ pool.pending_investment_amount > 0
                    /\ signer # pool.authority => result = "Unauthorized"
                    /\ (signer = pool.authority
                          /\ pool.pending_investment_amount = 0) =>
                          result = "NoPendingInvestment"]_vars

\* the authority has invested an approved amount, and a second investment is
\* now rejected for every signer
C28_Witness ==
    /\ last.ix = "invest_in_kamino"
    /\ last.signer = "authority"
    /\ pool.total_invested > 0
    /\ pool.pending_investment_amount = 0
    /\ invest_in_kamino_result("authority", TRUE) = "NoPendingInvestment"
    /\ invest_in_kamino_result("user", TRUE) = "Unauthorized"

----------------------------------------------------------------------------
(* The layout of the GhostPool account and the state the requests point at *)

\* the 8-byte discriminator an #[account] carries before its fields
DISCRIMINATOR_LEN == 8

\* the bytes of one field element of the encrypted state
FIELD_ELEMENT_LEN == 32

\* the fields of GhostPool in the order declared, with their serialized sizes
GhostPool_fields ==
    << [name |-> "bump", size |-> 1],
       [name |-> "authority", size |-> 32],
       [name |-> "usdc_mint", size |-> 32],
       [name |-> "vault_bump", size |-> 1],
       [name |-> "investment_threshold", size |-> 8],
       [name |-> "last_investment_time", size |-> 8],
       [name |-> "state_nonce", size |-> 16],
       [name |-> "encrypted_state", size |-> FIELD_ELEMENT_LEN * 13],
       [name |-> "total_deposits", size |-> 8],
       [name |-> "total_withdrawals", size |-> 8],
       [name |-> "total_invested", size |-> 8],
       [name |-> "pending_investment_amount", size |-> 8],
       [name |-> "collateral_token_account", size |-> 32],
       [name |-> "total_collateral_received", size |-> 8] >>

\* the bytes of the account before the field after the k-th
RECURSIVE bytes_before(_)
bytes_before(k) ==
    IF k = 0 THEN DISCRIMINATOR_LEN
    ELSE bytes_before(k - 1) + GhostPool_fields[k].size

field_index(name) ==
    CHOOSE k \in 1..Len(GhostPool_fields) : GhostPool_fields[k].name = name

\* faulty variant: the offset is counted from the first field, without the
\* discriminator
offset_of_NoDiscriminator(name) ==
    bytes_before(field_index(name) - 1) - DISCRIMINATOR_LEN

offset_of(name) == bytes_before(field_index(name) - 1)

size_of(name) == GhostPool_fields[field_index(name)].size

\* the field elements of a PoolState: one per field of each DepositEntry and
\* one per scalar field
PoolState_elements ==
    MAX_DEPOSITS * Cardinality(DOMAIN empty_entry)
        + (Cardinality(DOMAIN init_pool_state) - 1)

\* C29: the encrypted state is MAX_DEPOSITS * 4 + 5 = 13 field elements of 32
\* bytes, 416 bytes, and every request that reads it (deposit,
\* check_and_invest, withdraw) points at byte offset 106 = 8 + 1 + 32 + 32 + 1
\* + 8 + 8 + 16 with length 416: the position and the size of encrypted_state
\* in the GhostPool account
C29_RequestsPointAtState ==
    /\ PoolState_elements = MAX_DEPOSITS * 4 + 5
    /\ PoolState_elements = 13
    /\ size_of("encrypted_state") = PoolState_elements * FIELD_ELEMENT_LEN
    /\ \A c \in computations :
         c.ix \in {"process_deposit", "check_investment_needed",
                   "authorize_withdrawal"} =>
             /\ c.state_offset = 8 + 1 + 32 + 32 + 1 + 8 + 8 + 16
             /\ c.state_offset = 106
             /\ c.state_len = 416
             /\ c.state_offset = offset_of("encrypted_state")
             /\ c.state_len = size_of("encrypted_state")

\* a withdrawal request and an investment check are in flight together
C29_Witness ==
    \E c, d \in computations :
        /\ c.ix = "authorize_withdrawal" /\ c.state_offset = 106
        /\ d.ix = "check_investment_needed" /\ d.state_len = 416
        /\ pool.total_deposits > 0

----------------------------------------------------------------------------
(* Slots that share a password hash                                        *)

\* C30: when several active slots store the supplied hash,
\* authorize_withdrawal decides on the one of lowest index alone: found_idx
\* is its index and the request is authorized exactly when its balance covers
\* the amount, so it is refused when that balance is short even if a slot of
\* higher index with the same hash would cover it
C30_LowestMatchDecides ==
    (/\ Completed("authorize_withdrawal")
     /\ Cardinality(Matching(l_last.pre, l_last.hash)) > 1) =>
        LET S == Matching(l_last.pre, l_last.hash)
            first == Lowest(S)
            auth == authorize_withdrawal(l_last.hash, l_last.amount, l_last.pre)
        IN  /\ l_last.idx = first
            /\ auth.found_idx = first
            /\ \A j \in S \ {first} : first < j /\ auth.found_idx # j
            /\ auth.authorized <=>
                   Geq64(current_balance(l_last.pre, first), l_last.amount)
            /\ ~Geq64(current_balance(l_last.pre, first), l_last.amount) =>
                   /\ ~auth.authorized
                   /\ auth.amount = 0

\* a request was refused on the first slot's balance although the second
\* slot, with the same hash, holds the amount
C30_Witness ==
    /\ Completed("authorize_withdrawal")
    /\ Matching(l_last.pre, l_last.hash) = {0, 1}
    /\ ~Geq64(current_balance(l_last.pre, 0), l_last.amount)
    /\ Geq64(current_balance(l_last.pre, 1), l_last.amount)
    /\ l_last.idx = 0
    /\ ~authorize_withdrawal(l_last.hash, l_last.amount, l_last.pre).authorized

----------------------------------------------------------------------------
(* Yield at full width                                                     *)

\* the circuit applied last to the full-width state was op and ran to its end
WideCompleted(op) == w_last.op = op /\ ~w_last.aborted

\* floor(yield_amount * 1e9 / total_deposited), the product formed in full
exact_yield_per_token(state, yield_amount) ==
    w_div(w_mul(yield_amount, Wide(SCALE)), state.total_deposited)

\* C22: with total_deposited > 0, record_yield(y) raises yield_per_share by
\* floor(y * 1e9 / total_deposited), the total taken before the update, and
\* then total_deposited by y; with total_deposited = 0 it returns the
\* PoolState as it was in every field.  Stated for the inputs whose new index
\* and new total are u64.
C22_YieldUpdate ==
    WideCompleted("record_yield") =>
        LET pre == w_last.pre
            y == w_last.amount
            new_index == w_add(pre.yield_per_share,
                               exact_yield_per_token(pre, y))
            new_total == w_add(pre.total_deposited, y)
        IN  IF pre.total_deposited # Wide(0)
            THEN (fits64(new_index) /\ fits64(new_total)) =>
                     /\ wide.yield_per_share = new_index
                     /\ wide.total_deposited = new_total
            ELSE wide = pre

\* every active slot of the state is checkpointed at its index
AllCheckpointed(state) ==
    \A i \in SlotIdx :
        state.deposits[i].is_active =>
            state.deposits[i].last_yield_checkpoint = state.yield_per_share

\* the principals of the active slots i.. of the state, summed in full
RECURSIVE WidePrincipal(_, _)
WidePrincipal(state, i) ==
    IF i = MAX_DEPOSITS THEN Wide(0)
    ELSE w_add(IF state.deposits[i].is_active
               THEN state.deposits[i].principal ELSE Wide(0),
               WidePrincipal(state, i + 1))

\* a yield has just been recorded over depositors who were all checkpointed
\* at the index before it and whose principals were the whole total
YieldOverDepositors ==
    /\ WideCompleted("record_yield")
    /\ w_last.pre.deposit_count >= 1
    /\ AllCheckpointed(w_last.pre)
    /\ WidePrincipal(w_last.pre, 0) = w_last.pre.total_deposited

\* floor(P_i * floor(Y * 1e9 / T) / 1e9), every product formed in full
exact_share(state, yield_amount, i) ==
    w_div(w_mul(exact_yield_per_token(state, yield_amount),
                state.deposits[i].principal),
          Wide(SCALE))

\* C23: for depositors checkpointed at the index just before a yield event
\* and whose principals P_i sum to total_deposited T, after record_yield(Y)
\* the accrued yield authorize_withdrawal uses for depositor i is
\* floor(P_i * floor(Y * 1e9 / T) / 1e9); for principals 100 and 300 and
\* Y = 40 it is 10 and 30.  Stated for the inputs whose new index is a u64.
C23_AccruedShare ==
    (/\ YieldOverDepositors
     /\ fits64(w_add(w_last.pre.yield_per_share,
                     exact_yield_per_token(w_last.pre, w_last.amount)))) =>
        /\ \A i \in SlotIdx :
             wide.deposits[i].is_active =>
                 /\ ~wide_accrued_yield_faults(wide, i)
                 /\ wide_accrued_yield(wide, i) =
                        exact_share(w_last.pre, w_last.amount, i)
        /\ (/\ w_last.amount = Wide(40)
            /\ wide.deposits[0].principal = Wide(100)
            /\ wide.deposits[1].principal = Wide(300)) =>
               /\ wide_accrued_yield(wide, 0) = Wide(10)
               /\ wide_accrued_yield(wide, 1) = Wide(30)

\* the accrued yield of the active slots i.. of the state, summed in full
RECURSIVE WideAccrued(_, _)
WideAccrued(state, i) ==
    IF i = MAX_DEPOSITS THEN Wide(0)
    ELSE w_add(IF state.deposits[i].is_active
               THEN wide_accrued_yield(state, i) ELSE Wide(0),
               WideAccrued(state, i + 1))

\* the yield of the last event that no depositor's share holds
Shortfall == w_sub(w_last.amount, WideAccrued(wide, 0))

\* C24: after one yield event Y over n >= 1 active depositors checkpointed at
\* the index before it, whose principals sum to total_deposited T, the
\* depositors' accrued shares sum to at most Y; and when Y * 1e9 is a u64
\* the sum falls short of Y by fewer than n + T / 1e9 units, that is by at
\* most n units while T <= 1e9
C24_RoundingLoss ==
    YieldOverDepositors =>
        LET n == w_last.pre.deposit_count
            T == w_last.pre.total_deposited
        IN  /\ w_geq(w_last.amount, WideAccrued(wide, 0))
            /\ fits64(w_mul(w_last.amount, Wide(SCALE))) =>
                   \/ w_geq(Wide(n), Shortfall)
                   \/ ~w_geq(w_mul(w_sub(Shortfall, Wide(n)), Wide(SCALE)), T)

\* a yield of 40 over one depositor of 300 left him 39: a whole unit short
C24_Witness ==
    /\ YieldOverDepositors
    /\ w_last.pre.deposit_count = 1
    /\ w_last.amount = Wide(40)
    /\ w_last.pre.total_deposited = Wide(300)
    /\ WideAccrued(wide, 0) = Wide(39)
    /\ Shortfall = Wide(1)

\* C24 (as the specification states it): the sum of the accrued shares never
\* exceeds Y and falls short of Y by fewer than n units.  Stated for the
\* events whose product Y * 1e9 is a u64.
C24_LossBelowClaimants ==
    (YieldOverDepositors /\ fits64(w_mul(w_last.amount, Wide(SCALE)))) =>
        /\ w_geq(w_last.amount, WideAccrued(wide, 0))
        /\ ~w_geq(Shortfall, Wide(w_last.pre.deposit_count))

\* C13 (at full width): no circuit lowers yield_per_share: after every
\* process_deposit and record_yield its value is at least what it was before
C13_IndexNeverFallsInFull ==
    [][w_geq(wide'.yield_per_share, wide.yield_per_share)]_vars

----------------------------------------------------------------------------
(* Balances, frames and stale slots                                        *)

\* the balances (principal + accrued yield) of the active slots i.. of the
\* state, summed
RECURSIVE ActiveBalance(_, _)
ActiveBalance(state, i) ==
    IF i = MAX_DEPOSITS THEN 0
    ELSE (IF state.deposits[i].is_active THEN current_balance(state, i) ELSE 0)
         + ActiveBalance(state, i + 1)

\* C31: in every ledger state reached by process_deposit, record_yield and
\* process_withdrawal with the idx and amount authorize_withdrawal approved,
\* the balances of the active slots sum to at most total_deposited, and so
\* total_deposited -= amount of an approved withdrawal does not underflow
C31_BalancesCovered ==
    /\ ledger.total_deposited >= 0
    /\ ActiveBalance(ledger, 0) <= ledger.total_deposited
    /\ \A h \in Hashes, a \in 0..(MaxAmount + 1) :
           LET auth == authorize_withdrawal(h, a, ledger)
           IN  auth.authorized =>
                   ~SubUnderflows(ledger.total_deposited, auth.amount)
    /\ l_last.op = "process_withdrawal" =>
           ~SubUnderflows(l_last.pre.total_deposited, l_last.amount)

\* a withdrawal after a yield whose shares were rounded down: the balances
\* left sum to less than the total
C31_Witness ==
    /\ Completed("process_withdrawal")
    /\ l_last.amount > 0
    /\ ledger.yield_per_share > 0
    /\ ActiveBalance(ledger, 0) > 0
    /\ ActiveBalance(ledger, 0) < ledger.total_deposited

\* C32: a process_deposit that finds a slot raises total_deposited and
\* pending_deposits by exactly amount and deposit_count by exactly 1, and
\* leaves total_invested and yield_per_share as they were
C32_DepositFrame ==
    (Completed("process_deposit") /\ HasFree(l_last.pre)) =>
        /\ ledger.total_deposited = l_last.pre.total_deposited + l_last.amount
        /\ ledger.pending_deposits = l_last.pre.pending_deposits + l_last.amount
        /\ ledger.deposit_count = l_last.pre.deposit_count + 1
        /\ ledger.total_invested = l_last.pre.total_invested
        /\ ledger.yield_per_share = l_last.pre.yield_per_share

\* a deposit into a ledger that has invested and has paid yield
C32_Witness ==
    /\ Completed("process_deposit")
    /\ HasFree(l_last.pre)
    /\ l_last.amount > 0
    /\ l_last.pre.total_invested > 0
    /\ l_last.pre.yield_per_share > 0
    /\ ledger.deposit_count = 2

\* C33: record_yield changes no deposit slot (password hash, principal,
\* checkpoint, active flag) and not pending_deposits, total_invested or
\* deposit_count: the PoolState it returns differs from the one it was given
\* in yield_per_share and total_deposited at most
C33_YieldFrame ==
    Completed("record_yield") =>
        /\ \A i \in SlotIdx : ledger.deposits[i] = l_last.pre.deposits[i]
        /\ ledger.pending_deposits = l_last.pre.pending_deposits
        /\ ledger.total_invested = l_last.pre.total_invested
        /\ ledger.deposit_count = l_last.pre.deposit_count
        /\ ledger = [l_last.pre EXCEPT
                        !.yield_per_share = ledger.yield_per_share,
                        !.total_deposited = ledger.total_deposited]

\* a yield that moved the index over two depositors, one of them invested
C33_Witness ==
    /\ Completed("record_yield")
    /\ l_last.amount > 0
    /\ l_last.pre.deposit_count = 2
    /\ l_last.pre.total_invested > 0
    /\ ledger.yield_per_share > l_last.pre.yield_per_share
    /\ ledger.total_deposited > l_last.pre.total_deposited

\* C34: record_investment with amount <= pending_deposits runs to its end,
\* raises total_invested by amount and lowers pending_deposits by amount, so
\* that pending_deposits + total_invested is what it was, and leaves
\* total_deposited, yield_per_share, deposit_count and every slot as they were
C34_InvestmentFrame ==
    (/\ l_last.op = "record_investment"
     /\ Geq64(l_last.pre.pending_deposits, l_last.amount)) =>
        /\ ~l_last.aborted
        /\ ledger.total_invested = l_last.pre.total_invested + l_last.amount
        /\ ledger.pending_deposits = l_last.pre.pending_deposits - l_last.amount
        /\ ledger.pending_deposits + ledger.total_invested =
               l_last.pre.pending_deposits + l_last.pre.total_invested
        /\ ledger.total_deposited = l_last.pre.total_deposited
        /\ ledger.yield_per_share = l_last.pre.yield_per_share
        /\ ledger.deposit_count = l_last.pre.deposit_count
        /\ \A i \in SlotIdx : ledger.deposits[i] = l_last.pre.deposits[i]

\* the second of two investments of 1, out of pending deposits of 2
C34_Witness ==
    /\ Completed("record_investment")
    /\ l_last.amount = 1
    /\ l_last.pre.pending_deposits = 1
    /\ l_last.pre.total_invested = 1
    /\ l_last.pre.deposit_count = 2
    /\ ledger.pending_deposits = 0
    /\ ledger.total_invested = 2

\* the idx handed to the last process_withdrawal names no active slot
IdxNotActive ==
    \/ l_last.idx \notin SlotIdx
    \/ ~l_last.pre.deposits[l_last.idx].is_active

\* C35: process_withdrawal(idx, amount) changes an active flag or
\* deposit_count only when idx is the index of an active slot: with an idx
\* that names an inactive slot or is >= MAX_DEPOSITS, whatever the amount,
\* 0 included, every active flag and deposit_count are as they were; and in
\* every case the slots other than idx, pending_deposits, total_invested and
\* yield_per_share are as they were
C35_WithdrawalFrame ==
    Completed("process_withdrawal") =>
        /\ IdxNotActive =>
               /\ \A i \in SlotIdx :
                      ledger.deposits[i].is_active = l_last.pre.deposits[i].is_active
               /\ ledger.deposit_count = l_last.pre.deposit_count
        /\ \A i \in SlotIdx \ {l_last.idx} :
               ledger.deposits[i] = l_last.pre.deposits[i]
        /\ ledger.pending_deposits = l_last.pre.pending_deposits
        /\ ledger.total_invested = l_last.pre.total_invested
        /\ ledger.yield_per_share = l_last.pre.yield_per_share

\* the answer of authorize_withdrawal when no slot is found
NotAuthorized == [authorized |-> FALSE, amount |-> 0, found_idx |-> 0]

\* C36: the hash left behind in an inactive slot authorizes nothing: once a
\* full withdrawal has deactivated a slot, and for as long as no active slot
\* stores the same hash, authorize_withdrawal with that hash reveals
\* authorized = false and amount = 0 for every requested amount, 0 included
C36_StaleHashRejected ==
    \A i \in SlotIdx :
        (/\ ~ledger.deposits[i].is_active
         /\ Matching(ledger, ledger.deposits[i].password_hash) = {}) =>
            \A req \in 0..(MaxAmount + 1) :
                authorize_withdrawal(ledger.deposits[i].password_hash, req,
                                     ledger) = NotAuthorized

\* authorize_withdrawal for amount 0 was run with the hash of a slot that a
\* full withdrawal had deactivated, while the other slot was active under
\* another hash
C36_Witness ==
    /\ Completed("authorize_withdrawal")
    /\ l_last.amount = 0
    /\ l_last.hash = 1
    /\ ~ledger.deposits[0].is_active
    /\ ledger.deposits[0].password_hash = 1
    /\ ledger.deposits[0].last_yield_checkpoint = 0
    /\ ledger.deposits[1].is_active
    /\ ledger.deposits[1].password_hash = 0
    /\ authorize_withdrawal(1, 0, ledger) = NotAuthorized

----------------------------------------------------------------------------
(* Revealed results and the creation of the pool                           *)

\* the computations whose result is revealed, not re-encrypted
RevealedResults == {"check_investment_needed", "authorize_withdrawal"}

\* C37: the callbacks of check_investment_needed and authorize_withdrawal
\* leave the encrypted-state blob and the version counter state_nonce as they
\* were, whatever flag was revealed and whether or not the output verified;
\* a request that carried the current version before such a callback carries
\* it after
C37_RevealedKeepsVersion ==
    [][\A c \in computations :
         (CallbackOf(c) /\ c.ix \in RevealedResults) =>
             /\ pool'.encrypted_state = pool.encrypted_state
             /\ pool'.state_nonce = pool.state_nonce
             /\ \A q \in computations' :
                    q.state_nonce = pool.state_nonce =>
                        q.state_nonce = pool'.state_nonce]_vars

\* a withdrawal has just been paid out while a request built before its
\* callback is outstanding: that request still carries the pool's version
C37_Witness ==
    /\ last.ix = "authorize_withdrawal_callback"
    /\ last.result = "Ok"
    /\ last.output.flag
    /\ pool.total_withdrawals = 1
    /\ pool.encrypted_state.sealed
    /\ \E q \in computations :
           /\ q.status = "queued"
           /\ q.offset < last.offset
           /\ q.state_nonce = pool.state_nonce

\* every slot of the state is empty and inactive and every total is 0
AllZero(state) ==
    /\ \A i \in SlotIdx :
           /\ state.deposits[i].password_hash = 0
           /\ state.deposits[i].principal = 0
           /\ state.deposits[i].last_yield_checkpoint = 0
           /\ ~state.deposits[i].is_active
    /\ state.total_deposited = 0
    /\ state.total_invested = 0
    /\ state.pending_deposits = 0
    /\ state.yield_per_share = 0
    /\ state.deposit_count = 0

----------------------------------------------------------------------------
(* The index increment at full width                                       *)

\* C39: for every 64-bit yield_amount and every total_deposited > 0 the
\* increment record_yield computes is floor(yield_amount * 1e9 /
\* total_deposited): the product yield_amount * 1_000_000_000 is a u64, it is
\* not cut to 64 bits and the circuit does not trap on it, and the index
\* moves by that floor
C39_IncrementIsExact ==
    (w_last.op = "record_yield" /\ w_last.pre.total_deposited # Wide(0)) =>
        LET pre == w_last.pre
            y == w_last.amount
        IN  /\ fits64(w_mul(y, Wide(SCALE)))
            /\ wide_yield_per_token(pre, y) = exact_yield_per_token(pre, y)
            /\ ~w_last.aborted =>
                   wide.yield_per_share =
                       trunc64(w_add(pre.yield_per_share,
                                     exact_yield_per_token(pre, y)))

----------------------------------------------------------------------------
(* The lending reserve: a deposit redeemed at once                         *)

\* the step runs the instruction op on the reserve
ReserveStep(op) == k_ops' = k_ops + 1 /\ k_last' # k_last /\ k_last'.op = op

\* floor(a * b / c) with the product formed in full
exact_mul_div(a, b, c) == w_div(w_mul(a, b), c)

\* C40: deposit_reserve_liquidity(L) at exchange rate r > 0 mints
\* c = floor(L * 1e6 / r) cTokens for L of the user's liquidity, and is
\* rejected with ZeroCollateral, moving nothing, when c = 0; a
\* redeem_reserve_collateral(c) that follows it with no slot elapsed and no
\* accrue_yield in between pays floor(c * r / 1e6) liquidity, which is at
\* most L
C40_RoundTripNeverGains ==
    [][/\ ReserveStep("deposit_reserve_liquidity") =>
            LET L == k_last'.amount
                r == k_last'.rate
                fits == r # Wide(0) /\ fits64(w_mul(L, Wide(RATE_SCALE)))
                c == exact_mul_div(L, Wide(RATE_SCALE), r)
            IN  /\ k_last'.result = "Ok" =>
                       /\ fits
                       /\ k_last'.out = c
                       /\ c # Wide(0)
                       /\ user_collateral' = w_add(user_collateral, c)
                       /\ user_liquidity' = w_sub(user_liquidity, L)
                       /\ w_geq(user_liquidity, L)
                /\ (fits /\ c = Wide(0)) => k_last'.result = "ZeroCollateral"
                /\ k_last'.result = "ZeroCollateral" =>
                       /\ fits /\ c = Wide(0)
                       /\ UNCHANGED <<reserve, user_liquidity, user_collateral,
                                      reserve_liquidity_supply>>
       /\ (/\ ReserveStep("redeem_reserve_collateral")
           /\ k_last'.result = "Ok"
           /\ k_last.op = "deposit_reserve_liquidity"
           /\ k_last.result = "Ok"
           /\ k_last.slot = clock_slot
           /\ k_last'.amount = k_last.out) =>
              LET L == k_last.amount
                  c == k_last.out
                  r == k_last.rate
              IN  /\ k_last'.rate = r
                  /\ k_last'.out = exact_mul_div(c, r, Wide(RATE_SCALE))
                  /\ w_geq(L, k_last'.out)
                  /\ user_liquidity' = w_add(user_liquidity, k_last'.out)]_vars

\* 2 liquidity were deposited at the rate 1.5 for 1 cToken, which was
\* redeemed at once for 1 liquidity: the user is one short and holds no cToken
C40_Witness ==
    /\ k_last.op = "redeem_reserve_collateral"
    /\ k_last.result = "Ok"
    /\ k_ops = 2
    /\ clock_slot = 0
    /\ k_last.rate = Wide(1500000)
    /\ k_last.amount = Wide(1)
    /\ k_last.out = Wide(1)
    /\ user_collateral = Wide(0)
    /\ user_liquidity = Wide(ReserveUserTokens - 1)

====
